---------------------------- MODULE Spec2Model ----------------------------
(***************************************************************************)
(* FastTOML: a model of TomlParser (src/src/toml_parser.cpp,               *)
(* src/include/fasttoml/toml_parser.hpp).                                  *)
(*                                                                         *)
(* Bytes are the integers 0..255, the input is a sequence of bytes, the    *)
(* cursor current_ is a 0-based offset into it and end_ is its length.     *)
(* Tables and arrays live in a heap of objects addressed by their index,   *)
(* as the shared_ptr<Table> / shared_ptr<Array> of the source do; a        *)
(* TomlValue is a record [type, v] whose v is a sequence of integers.      *)
(*                                                                         *)
(* Every parsing method of the source is an operator of the same name that *)
(* takes the parser state (a record p of the fields the method may change) *)
(* and returns the state after it, with the value it returns where it      *)
(* returns one.  The actions are the call of parse(), the iterations of    *)
(* the loop of parse_document() and the return of parse().                 *)
(***************************************************************************)
EXTENDS Integers, Sequences, FiniteSets, TLC

VARIABLES
    input,                   \* the std::string handed to parse()
    current_,                \* const char* current_, as an offset from input.c_str()
    error_message_,          \* std::string error_message_
    heap,                    \* the Table and Array objects allocated so far
    root_table_,             \* shared_ptr<Table> root_table_   (index into heap)
    current_table_,          \* shared_ptr<Table> current_table_ (index into heap, 0 = nullptr)
    array_of_tables_paths_,  \* std::set<std::vector<std::string>>
    pc,                      \* where the call of parse() stands
    result,                  \* what parse() returned (0 = nullptr)
    uncaught,                \* the exception that is unwinding to the catch of parse()
    ctype_neg,               \* what std::isalnum / std::isdigit answer for a negative char
    hist                     \* history of the call, for the properties only

vars == <<input, current_, error_message_, heap, root_table_, current_table_,
          array_of_tables_paths_, pc, result, uncaught, ctype_neg, hist>>

-----------------------------------------------------------------------------
(* Bytes *)

\* The characters the source names, by their ASCII code.
C == [nul |-> 0, tab |-> 9, lf |-> 10, ff |-> 12, cr |-> 13, bs |-> 8, us |-> 31,
      sp |-> 32, dq |-> 34, hash |-> 35, sq |-> 39, plus |-> 43, comma |-> 44,
      minus |-> 45, dot |-> 46, d0 |-> 48, d1 |-> 49, d2 |-> 50, d3 |-> 51,
      d4 |-> 52, d5 |-> 53, d6 |-> 54, d7 |-> 55, d8 |-> 56, d9 |-> 57,
      colon |-> 58, eq |-> 61, A |-> 65, B |-> 66, E |-> 69, F |-> 70, O |-> 79,
      T |-> 84, U |-> 85, X |-> 88, Z |-> 90, lbracket |-> 91, backslash |-> 92,
      rbracket |-> 93, underscore |-> 95, a |-> 97, b |-> 98, c |-> 99,
      e |-> 101, f |-> 102, i |-> 105, l |-> 108, n |-> 110, o |-> 111,
      r |-> 114, s |-> 115, t |-> 116, u |-> 117, x |-> 120, z |-> 122,
      lbrace |-> 123, rbrace |-> 125, del |-> 127, hi |-> 128]

Byte == 0..255

\* A char of the build is signed: the bytes 128..255 are negative chars, for which
\* the <cctype> functions are undefined; ctype_neg is what they answer there.
Negative(ch) == ch >= 128

isdigit(ch) == IF Negative(ch) THEN ctype_neg ELSE ch \in 48..57

isalnum(ch) == IF Negative(ch) THEN ctype_neg
               ELSE ch \in 48..57 \/ ch \in 65..90 \/ ch \in 97..122

\* The bytes std::isdigit accepts, as a class for lookahead.
Digits == IF ctype_neg THEN (48..57) \cup (128..255) ELSE 48..57

-----------------------------------------------------------------------------
(* Error messages *)

\* A std::string message: its fixed text and the characters spliced into it.
Msg(text, arg) == [text |-> text, arg |-> arg]

\* The empty std::string.
NoMsg == Msg("", <<>>)

ControlCharMsg ==
    Msg("Control characters (U+0000-U+001F except tab/LF/CR in CRLF) and U+007F are not permitted", <<>>)

NonTableMsg(key) == Msg("Key '' already defined as non-table", key)

NonArrayMsg(key) == Msg("Key '' already defined as non-array", key)

NonArrayOfTablesMsg(key) == Msg("Key '' already defined as non-array-of-tables", key)

-----------------------------------------------------------------------------
(* The parser state the methods work on *)

end_ == Len(input)

\* The fields of the TomlParser object (and the history) as one record.
Self == [current_ |-> current_, error_message_ |-> error_message_, heap |-> heap,
         root_table_ |-> root_table_, current_table_ |-> current_table_,
         array_of_tables_paths_ |-> array_of_tables_paths_, uncaught |-> uncaught,
         hist |-> hist]

\* The mutant of has_error: no error is ever seen.
has_error_never(p) == FALSE

\* bool has_error() const
has_error(p) == p.error_message_ # NoMsg

\* The mutant of set_error: the last message wins.
set_error_last_wins(p, message) ==
    [p EXCEPT !.error_message_ = message,
              !.hist.first_error = IF @ = NoMsg THEN message ELSE @,
              !.hist.last_error = message,
              !.hist.errors = @ + 1]

\* void TomlParser::set_error(const std::string& message)
set_error(p, message) ==
    [p EXCEPT !.error_message_ = IF p.error_message_ = NoMsg THEN message ELSE @,
              !.hist.first_error = IF @ = NoMsg THEN message ELSE @,
              !.hist.last_error = message,
              !.hist.errors = @ + 1]

\* A call of a method of the parser by its name: call("parse_key", <<p>>) is
\* parse_key(p).  parse_value, parse_array and parse_inline_table call one
\* another, so the methods are reached through this one recursive operator,
\* which is defined after them.
RECURSIVE call(_, _)

-----------------------------------------------------------------------------
(* Cursor *)

\* The byte at offset i of the buffer; a read outside [begin, end) is recorded by
\* touch, and is given the terminating NUL of c_str().
at(i) == IF 0 <= i /\ i < end_ THEN input[i + 1] ELSE C.nul

\* Records a read of the byte at offset i.
touch(p, i) == IF 0 <= i /\ i < end_ THEN p ELSE [p EXCEPT !.hist.oob = TRUE]

\* Records the cursor being set to offset i.
move(p, i) == [p EXCEPT !.current_ = i,
                        !.hist.oob = @ \/ ~(0 <= i /\ i <= end_)]

\* The mutant of eof: an off-by-one end test.
eof_off_by_one(p) == p.current_ > end_

\* bool TomlParser::eof()
eof(p) == p.current_ >= end_

\* char TomlParser::peek()
peek(p) == IF eof(p) THEN C.nul ELSE at(p.current_)

\* char TomlParser::advance(): the state after it; the char it returns is peek(p).
advance(p) == IF eof(p) THEN p ELSE move(touch(p, p.current_), p.current_ + 1)

\* current_ += k
jump(p, k) == move(p, p.current_ + k)

\* The short-circuit conjunction  base[0] in classes[1] && base[1] in classes[2] && ...
\* hit: whether it holds; oob: whether a byte it read lies outside [begin, end).
lookahead(base, classes) ==
    LET n == Len(classes)
        fails == {k \in 1..n : at(base + k - 1) \notin classes[k]}
        nread == IF fails = {} THEN n
                 ELSE CHOOSE k \in fails : \A j \in fails : k <= j
    IN [hit |-> fails = {},
        oob |-> \E k \in 1..nread : ~(0 <= base + k - 1 /\ base + k - 1 < end_)]

\* The conjunction was cut short by the length test in front of it.
NoLook == [hit |-> FALSE, oob |-> FALSE]

noting(p, la) == IF la.oob THEN [p EXCEPT !.hist.oob = TRUE] ELSE p


-----------------------------------------------------------------------------
(* simd_utils (the scalar build) and the skipping methods *)

\* inline bool is_whitespace(char c)
is_whitespace(ch) == ch = C.sp \/ ch = C.tab \/ ch = C.cr \/ ch = C.lf

\* inline bool is_whitespace_no_nl(char c)
is_whitespace_no_nl(ch) == ch = C.sp \/ ch = C.tab \/ ch = C.cr

\* const char* simd_utils::skip_whitespace(const char* ptr, const char* end)
RECURSIVE simd_skip_whitespace(_)
simd_skip_whitespace(ptr) ==
    IF ptr < end_ /\ is_whitespace(at(ptr)) THEN simd_skip_whitespace(ptr + 1) ELSE ptr

\* const char* simd_utils::skip_whitespace_no_nl(const char* ptr, const char* end)
RECURSIVE simd_skip_whitespace_no_nl(_)
simd_skip_whitespace_no_nl(ptr) ==
    IF ptr < end_ /\ is_whitespace_no_nl(at(ptr)) THEN simd_skip_whitespace_no_nl(ptr + 1)
    ELSE ptr

\* const char* simd_utils::find_char_simd(const char* ptr, const char* end, char c)
RECURSIVE simd_find_char(_, _)
simd_find_char(ptr, ch) ==
    IF ptr < end_ /\ at(ptr) # ch THEN simd_find_char(ptr + 1, ch) ELSE ptr

-----------------------------------------------------------------------------
(* simd_utils (the AVX2 build) *)

\* The bytes of a __m256i.
ChunkBytes == 32

Lanes == 0..(ChunkBytes - 1)

\* _mm256_loadu_si256(ptr): the 32 bytes from ptr.
loadu_si256(ptr) == [i \in Lanes |-> at(ptr + i)]

\* _mm256_cmpeq_epi8(chunk, _mm256_set1_epi8(ch)): a lane is all ones (TRUE) where
\* the byte is ch and zero elsewhere.
cmpeq_epi8(chunk, ch) == [i \in Lanes |-> chunk[i] = ch]

\* _mm256_or_si256(a, b)
or_si256(a, b) == [i \in Lanes |-> a[i] \/ b[i]]

\* static_cast<unsigned int>(_mm256_movemask_epi8(v)): bit i of the mask is the
\* top bit of lane i.  The 32 bits are kept as a function, the mask being wider
\* than the integers of the model.
movemask_epi8(v) == [i \in Lanes |-> v[i]]

\* ~mask
complement(mask) == [i \in Lanes |-> ~mask[i]]

\* The mutant of ctz: the index of the lowest set bit, counted from one.
ctz_from_one(mask) == 1 + CHOOSE i \in Lanes : mask[i] /\ \A j \in Lanes : mask[j] => i <= j

\* inline int ctz(unsigned int x): the index of the lowest set bit.  Of zero
\* __builtin_ctz is undefined: the model gives -1, and the callers record that
\* they asked.
ctz(mask) ==
    IF \A i \in Lanes : ~mask[i] THEN -1
    ELSE CHOOSE i \in Lanes : mask[i] /\ \A j \in Lanes : mask[j] => i <= j

\* What an AVX2 function returns, with the chunks it loaded and whether it took
\* ctz of zero.
Found(ptr, loads, undefined) == [ptr |-> ptr, loads |-> loads, undefined |-> undefined]

\* return ptr + idx;  the index being ctz of the word
found_at(ptr, word, loads) ==
    Found(ptr + ctz(word), loads, \A i \in Lanes : ~word[i])

\* The loop  while (end - ptr >= 32)  of the AVX2 skip_whitespace and the scalar
\* loop after it.
RECURSIVE avx2_skip_whitespace_loop(_, _)
avx2_skip_whitespace_loop(ptr, loads) ==
    IF end_ - ptr >= ChunkBytes THEN
        LET chunk == loadu_si256(ptr)
            combined == or_si256(or_si256(cmpeq_epi8(chunk, C.sp), cmpeq_epi8(chunk, C.tab)),
                                 or_si256(cmpeq_epi8(chunk, C.cr), cmpeq_epi8(chunk, C.lf)))
            mask == movemask_epi8(combined)
        IN IF \E i \in Lanes : ~mask[i]
           THEN found_at(ptr, complement(mask), loads \cup {ptr})
           ELSE avx2_skip_whitespace_loop(ptr + ChunkBytes, loads \cup {ptr})
    ELSE Found(simd_skip_whitespace(ptr), loads, FALSE)

\* const char* simd_utils::skip_whitespace(const char* ptr, const char* end), AVX2
avx2_skip_whitespace(ptr) ==
    IF end_ - ptr < ChunkBytes THEN Found(simd_skip_whitespace(ptr), {}, FALSE)
    ELSE avx2_skip_whitespace_loop(ptr, {})

\* The loops of the AVX2 skip_whitespace_no_nl.
RECURSIVE avx2_skip_whitespace_no_nl_loop(_, _)
avx2_skip_whitespace_no_nl_loop(ptr, loads) ==
    IF end_ - ptr >= ChunkBytes THEN
        LET chunk == loadu_si256(ptr)
            combined == or_si256(or_si256(cmpeq_epi8(chunk, C.sp), cmpeq_epi8(chunk, C.tab)),
                                 cmpeq_epi8(chunk, C.cr))
            mask == movemask_epi8(combined)
        IN IF \E i \in Lanes : ~mask[i]
           THEN found_at(ptr, complement(mask), loads \cup {ptr})
           ELSE avx2_skip_whitespace_no_nl_loop(ptr + ChunkBytes, loads \cup {ptr})
    ELSE Found(simd_skip_whitespace_no_nl(ptr), loads, FALSE)

\* const char* simd_utils::skip_whitespace_no_nl(const char* ptr, const char* end), AVX2
avx2_skip_whitespace_no_nl(ptr) ==
    IF end_ - ptr < ChunkBytes THEN Found(simd_skip_whitespace_no_nl(ptr), {}, FALSE)
    ELSE avx2_skip_whitespace_no_nl_loop(ptr, {})

\* The loops of the AVX2 find_char_simd.
RECURSIVE avx2_find_char_loop(_, _, _)
avx2_find_char_loop(ptr, ch, loads) ==
    IF end_ - ptr >= ChunkBytes THEN
        LET mask == movemask_epi8(cmpeq_epi8(loadu_si256(ptr), ch))
        IN IF \E i \in Lanes : mask[i]
           THEN found_at(ptr, mask, loads \cup {ptr})
           ELSE avx2_find_char_loop(ptr + ChunkBytes, ch, loads \cup {ptr})
    ELSE Found(simd_find_char(ptr, ch), loads, FALSE)

\* const char* simd_utils::find_char_simd(const char* ptr, const char* end, char c), AVX2
avx2_find_char(ptr, ch) ==
    IF end_ - ptr < ChunkBytes THEN Found(simd_find_char(ptr, ch), {}, FALSE)
    ELSE avx2_find_char_loop(ptr, ch, {})

\* void TomlParser::skip_whitespace()
skip_whitespace(p) == move(p, simd_skip_whitespace(p.current_))

\* void TomlParser::skip_whitespace_no_nl()
skip_whitespace_no_nl(p) == move(p, simd_skip_whitespace_no_nl(p.current_))

\* while (!eof() && peek() != '\n') advance();
RECURSIVE skip_to_newline(_)
skip_to_newline(p) ==
    IF ~eof(p) /\ peek(p) # C.lf THEN skip_to_newline(advance(p)) ELSE p

\* void TomlParser::skip_comment()
skip_comment(p) == IF peek(p) = C.hash THEN skip_to_newline(p) ELSE p

\* "Expected '<c>' but found '<X>'", X the byte found or EOF
ExpectedMsg(ch, found) == Msg("Expected '' but found ''", <<ch>> \o found)

\* void TomlParser::expect_char(char c)
expect_char(p, ch) ==
    IF eof(p) \/ peek(p) # ch
    THEN set_error(p, ExpectedMsg(ch, IF eof(p) THEN <<C.E, C.O, C.F>> ELSE <<peek(p)>>))
    ELSE advance(p)

-----------------------------------------------------------------------------
(* TomlValue, Table, Array *)

\* A TomlValue: the alternative the variant holds and its content.
Val(type, v) == [type |-> type, v |-> v]

\* A double is kept as the decimal text strtod converted.
Float(text) == Val("Float", text)

Boolean(b) == Val("Boolean", <<IF b THEN 1 ELSE 0>>)

String(bytes) == Val("String", bytes)

\* struct DateTimeOffset { DateTime utc; int offset_minutes; }, utc in seconds
\* since the epoch and the fraction of a second as its decimal digits.
DateTimeOffset(utc, offset_minutes, frac) ==
    Val("DateTimeOffset", <<utc, offset_minutes>> \o frac)

TablePtr(id) == Val("TablePtr", <<id>>)

ArrayPtr(id) == Val("ArrayPtr", <<id>>)

\* std::holds_alternative<T>(v)
holds_alternative(v, type) == v.type = type

\* std::get<TablePtr>(v), std::get<ArrayPtr>(v): the object pointed to
get(v) == v.v[1]

\* class Table { std::unordered_map<std::string, TomlValue> values; }
Table(values) == [kind |-> "Table", values |-> values, elements |-> <<>>]

\* class Array { std::vector<TomlValue> elements; }
Array(elements) == [kind |-> "Array", values |-> <<>>, elements |-> elements]

\* std::make_shared<Table>() / std::make_shared<Array>(): the new object is the
\* last of the heap.
make_shared(p, obj) == [p EXCEPT !.heap = Append(@, obj)]

newest(p) == Len(p.heap)

\* The mutant of Table::has: the key is never found.
has_never(p, t, key) == FALSE

\* bool Table::has(const std::string& key) const
has(p, t, key) == key \in DOMAIN p.heap[t].values

\* void Table::set(const std::string& key, const TomlValue& value)
set(p, t, key, value) ==
    [p EXCEPT !.heap[t].values =
        [k \in (DOMAIN @) \cup {key} |-> IF k = key THEN value ELSE @[k]]]

\* The mutant of Array::append: the element is not stored.
append_dropped(p, arr, value) == p

\* void Array::append(const TomlValue& value)
append(p, arr, value) == [p EXCEPT !.heap[arr].elements = Append(@, value)]

\* A method's return: the state after it and the value returned.
Ret(p, v) == [p |-> p, v |-> v]

-----------------------------------------------------------------------------
(* History of the structure, kept beside the code for the properties *)

\* t->set(path.back(), value) of a direct assignment: the key is noted as
\* assigned, a second assignment of it is noted, and so are an assignment that
\* replaces an array made by [[header]]s and the elements of an array assigned.
note_assignment(p, t, key, value) ==
    LET old == IF key \in DOMAIN p.heap[t].values THEN p.heap[t].values[key]
               ELSE Val("", <<>>)
    IN [p EXCEPT
        !.hist.assigned = @ \cup {<<t, key>>},
        !.hist.reassigned = @ \/ <<t, key>> \in p.hist.assigned,
        !.hist.header_array_assigned =
            @ \/ (/\ holds_alternative(value, "ArrayPtr")
                  /\ holds_alternative(old, "ArrayPtr")
                  /\ get(old) \in {e[1] : e \in p.hist.header_arrays}),
        !.hist.static_arrays =
            IF holds_alternative(value, "ArrayPtr")
            THEN @ \cup {<<get(value), p.heap[get(value)].elements>>} ELSE @]

\* A [[header]] of the path made the array arr.
note_array_created(p, path, arr) ==
    [p EXCEPT !.hist.header_arrays = @ \cup {<<arr, path>>}]

\* A [[header]] made the table tbl the newest element of the array arr.
note_array_header(p, arr, tbl) ==
    [p EXCEPT !.hist.header_tables = Append(@, <<arr, tbl>>)]

\* A dotted key made the table r.v as an intermediate of its path.
note_implicit(r) == Ret([r.p EXCEPT !.hist.implicit = @ \cup {r.v}], r.v)

\* A call of one of the three path helpers, from the state before to the state
\* after: whether it recorded an error, and whether it left every table and array
\* and the set of array-of-tables paths as they were.
note_frame(method, before, after) ==
    [after EXCEPT !.hist.path_calls =
        @ \cup {[method |-> method,
                 error |-> after.hist.errors > before.hist.errors,
                 heap_same |-> after.heap = before.heap,
                 paths_same |-> after.array_of_tables_paths_ = before.array_of_tables_paths_]}]

\* The same, for a helper that returns a table.
note_frame_of(method, before, r) == Ret(note_frame(method, before, r.p), r.v)

\* The history of an object just constructed.
NoHist == [first_error |-> NoMsg, last_error |-> NoMsg, errors |-> 0, oob |-> FALSE, stalled |-> FALSE,
           assigned |-> {}, reassigned |-> FALSE, header_array_assigned |-> FALSE,
           static_arrays |-> {}, header_arrays |-> {}, header_tables |-> <<>>,
           last_header |-> "none", datetime_calls |-> {}, path_calls |-> {}, calls |-> <<>>, implicit |-> {},
           last_op |-> [kind |-> "none", path |-> <<>>, table |-> 0, ok |-> FALSE]]

\* The step of the driver just taken: its kind, the path of its header or of its
\* key, the table it started from and whether it recorded no error.
noted(p, kind, path, table) ==
    [p EXCEPT !.hist.last_op = [kind |-> kind, path |-> path, table |-> table,
                                ok |-> p.hist.errors = hist.errors]]

\* The same, for a step whose path was noted as it was read.
noted_path(p, kind, table) == noted(p, kind, p.hist.last_op.path, table)

\* The path of the key of a key-value pair, noted when it is read.
note_path(p, path) == [p EXCEPT !.hist.last_op.path = path]

-----------------------------------------------------------------------------
(* Path helpers *)

\* The mutant of the descent: what is not a table is replaced by a new table
\* before the error is recorded.
enter_overwriting(p, t, key, path_so_far, static_msg, element_msg) ==
    IF holds_alternative(p.heap[t].values[key], "TablePtr")
    THEN Ret(p, get(p.heap[t].values[key]))
    ELSE Ret(set_error(set(make_shared(p, Table(<<>>)), t, key, TablePtr(Len(p.heap) + 1)),
                       NonTableMsg(key)), 0)

\* The mutant of the descent: a key bound to a table is refused as well.
enter_refused(p, t, key, path_so_far, static_msg, element_msg) ==
    Ret(set_error(p, NonTableMsg(key)), 0)

\* The descent of get_or_create_table_at_path and of the prefix loop of
\* get_or_create_array_append_table through an existing key: a table is entered,
\* an array recorded by a [[header]] is entered at its last element, anything
\* else is an error.  static_msg and element_msg are the two messages in which
\* the two methods differ.
enter(p, t, key, path_so_far, static_msg, element_msg) ==
    LET v == p.heap[t].values[key] IN
    IF holds_alternative(v, "TablePtr") THEN Ret(p, get(v))
    ELSE IF holds_alternative(v, "ArrayPtr") THEN
        IF path_so_far \notin p.array_of_tables_paths_
        THEN Ret(set_error(p, static_msg), 0)
        ELSE LET elements == p.heap[get(v)].elements IN
             IF elements = <<>>
             THEN Ret(set_error(p, Msg("Array of tables is empty", <<>>)), 0)
             ELSE LET last == elements[Len(elements)] IN
                  IF ~holds_alternative(last, "TablePtr")
                  THEN Ret(set_error(p, element_msg), 0)
                  ELSE Ret(p, get(last))
    ELSE Ret(set_error(p, NonTableMsg(key)), 0)

\* auto new_table = std::make_shared<Table>(); t->set(key, new_table); t = new_table;
create_table(p, t, key) ==
    LET p1 == make_shared(p, Table(<<>>))
    IN Ret(set(p1, t, key, TablePtr(newest(p1))), newest(p1))

\* The loop of get_or_create_table_at_path from its index i (0-based), at table t.
RECURSIVE table_at_path_from(_, _, _, _)
table_at_path_from(p, path, i, t) ==
    IF i >= Len(path) THEN Ret(p, t)
    ELSE LET key == path[i + 1]
             r == IF has(p, t, key)
                  THEN call("enter", <<p, t, key, SubSeq(path, 1, i + 1),
                             Msg("Cannot extend static array with table header", <<>>),
                             NonTableMsg(key)>>)
                  ELSE call("create_table", <<p, t, key>>)
         IN IF r.v = 0 THEN r ELSE call("table_at_path_from", <<r.p, path, i + 1, r.v>>)

\* std::shared_ptr<Table> TomlParser::get_or_create_table_at_path(path)
get_or_create_table_at_path(p, path) ==
    note_frame_of("get_or_create_table_at_path", p,
                  call("table_at_path_from", <<p, path, 0, p.root_table_>>))

\* The prefix loop of get_or_create_array_append_table from its index i, at table t.
RECURSIVE array_prefix_from(_, _, _, _)
array_prefix_from(p, path, i, t) ==
    IF i + 1 >= Len(path) THEN Ret(p, t)
    ELSE LET key == path[i + 1]
             r == IF has(p, t, key)
                  THEN call("enter", <<p, t, key, SubSeq(path, 1, i + 1),
                             NonTableMsg(key), NonArrayOfTablesMsg(key)>>)
                  ELSE call("create_table", <<p, t, key>>)
         IN IF r.v = 0 THEN r ELSE call("array_prefix_from", <<r.p, path, i + 1, r.v>>)

\* The end of get_or_create_array_append_table, at the table t of the last key.
array_append_at(p, path, t) ==
    LET last_key == path[Len(path)] IN
    IF ~has(p, t, last_key) THEN
        LET p1 == [p EXCEPT !.array_of_tables_paths_ = @ \cup {path}]
            p2 == make_shared(p1, Array(<<>>))
            arr == newest(p2)
            p3 == make_shared(p2, Table(<<>>))
            new_table == newest(p3)
            p4 == append(p3, arr, TablePtr(new_table))
            p5 == set(p4, t, last_key, ArrayPtr(arr))
        IN Ret(note_array_header(note_array_created(p5, path, arr), arr, new_table), new_table)
    ELSE LET v == p.heap[t].values[last_key] IN
        IF ~holds_alternative(v, "ArrayPtr")
        THEN Ret(set_error(p, NonArrayMsg(last_key)), 0)
        ELSE IF path \notin p.array_of_tables_paths_
        THEN Ret(set_error(p, NonArrayOfTablesMsg(last_key)), 0)
        ELSE IF \E k \in DOMAIN p.heap[get(v)].elements :
                    ~holds_alternative(p.heap[get(v)].elements[k], "TablePtr")
        THEN Ret(set_error(p, NonArrayOfTablesMsg(last_key)), 0)
        ELSE LET p1 == make_shared(p, Table(<<>>))
                 new_table == newest(p1)
                 p2 == append(p1, get(v), TablePtr(new_table))
             IN Ret(note_array_header(p2, get(v), new_table), new_table)

\* std::shared_ptr<Table> TomlParser::get_or_create_array_append_table(path)
get_or_create_array_append_table(p, path) ==
    note_frame_of("get_or_create_array_append_table", p,
        IF path = <<>>
        THEN Ret(set_error(p, Msg("Empty array of tables path", <<>>)), 0)
        ELSE LET r == call("array_prefix_from", <<p, path, 0, p.root_table_>>)
             IN IF r.v = 0 THEN r ELSE call("array_append_at", <<r.p, path, r.v>>))

\* The loop of set_value_at_path from its index i, at table t, and the final set.
RECURSIVE set_value_from(_, _, _, _, _)
set_value_from(p, path, value, i, t) ==
    IF i + 1 >= Len(path)
    THEN set(note_assignment(p, t, path[Len(path)], value), t, path[Len(path)], value)
    ELSE LET key == path[i + 1] IN
         IF has(p, t, key) THEN
             LET v == p.heap[t].values[key] IN
             IF holds_alternative(v, "TablePtr")
             THEN call("set_value_from", <<p, path, value, i + 1, get(v)>>)
             ELSE set_error(p, NonTableMsg(key))
         ELSE LET r == note_implicit(call("create_table", <<p, t, key>>))
              IN call("set_value_from", <<r.p, path, value, i + 1, r.v>>)

\* void TomlParser::set_value_at_path(table, path, value)
set_value_at_path(p, table, path, value) ==
    note_frame("set_value_at_path", p,
               IF path = <<>> THEN p ELSE call("set_value_from", <<p, path, value, 0, table>>))

-----------------------------------------------------------------------------
(* Strings *)

\* The replacement character U+FFFD, "\xEF\xBF\xBD".
Replacement == <<239, 191, 189>>

\* The mutant of append_utf8: the low byte of the codepoint alone.
append_utf8_low_byte(cp) == <<cp % 256>>

\* static bool append_utf8(std::string& out, uint32_t cp): the bytes appended
\* (none when it returns false).  0xC0 | x, 0x80 | x and their like are sums, the
\* operands having no bit in common; static_cast<char> keeps the low 8 bits.
append_utf8(cp) ==
    IF cp > 1114111 \/ (cp >= 55296 /\ cp <= 57343) THEN <<>>
    ELSE IF cp <= 127 THEN <<cp>>
    ELSE IF cp <= 2047 THEN <<(192 + (cp \div 64)) % 256, 128 + (cp % 64)>>
    ELSE IF cp <= 65535
    THEN <<(224 + (cp \div 4096)) % 256, 128 + ((cp \div 64) % 64), 128 + (cp % 64)>>
    ELSE <<(240 + (cp \div 262144)) % 256, 128 + ((cp \div 4096) % 64),
           128 + ((cp \div 64) % 64), 128 + (cp % 64)>>

\* static int hex_digit(char c)
hex_digit(ch) == IF ch >= C.d0 /\ ch <= C.d9 THEN ch - C.d0
                 ELSE IF ch >= C.A /\ ch <= C.F THEN ch - C.A + 10
                 ELSE IF ch >= C.a /\ ch <= C.f THEN ch - C.a + 10
                 ELSE -1

\* cp = (cp << 4) | d in uint32_t.  Eight hex digits fit 32 bits, so nothing
\* wraps; a value above 0x10FFFF is kept as 0x110000, which the source treats
\* the same way (the model's integers are narrower than uint32_t).
shift_in(cp, d) == IF cp * 16 + d > 1114111 THEN 1114112 ELSE cp * 16 + d

\* The loop of parse_unicode_escape: i digits read so far into cp.
RECURSIVE unicode_digits(_, _, _, _)
unicode_digits(p, num_hex_digits, i, cp) ==
    IF i < num_hex_digits /\ ~eof(p) THEN
        LET d == hex_digit(peek(p)) IN
        IF d < 0
        THEN Ret(set_error(p, Msg("Invalid hex digit in Unicode escape", <<>>)), Replacement)
        ELSE call("unicode_digits", <<advance(p), num_hex_digits, i + 1, shift_in(cp, d)>>)
    ELSE IF i # num_hex_digits
    THEN Ret(set_error(p, Msg("Unicode escape truncated", <<>>)), Replacement)
    ELSE IF cp > 1114111 \/ (cp >= 55296 /\ cp <= 57343)
    THEN Ret(set_error(p, Msg("Invalid Unicode codepoint in escape", <<>>)), Replacement)
    ELSE Ret(p, append_utf8(cp))

\* std::string TomlParser::parse_unicode_escape(int num_hex_digits)
parse_unicode_escape(p, num_hex_digits) == call("unicode_digits", <<p, num_hex_digits, 0, 0>>)

\* std::string TomlParser::parse_escape_sequence()
parse_escape_sequence(p) ==
    IF eof(p)
    THEN Ret(set_error(p, Msg("Unexpected end of string in escape sequence", <<>>)), <<>>)
    ELSE LET ch == peek(p)
             p1 == advance(p)
         IN CASE ch = C.b -> Ret(p1, <<C.bs>>)
              [] ch = C.t -> Ret(p1, <<C.tab>>)
              [] ch = C.n -> Ret(p1, <<C.lf>>)
              [] ch = C.f -> Ret(p1, <<C.ff>>)
              [] ch = C.r -> Ret(p1, <<C.cr>>)
              [] ch = C.dq -> Ret(p1, <<C.dq>>)
              [] ch = C.backslash -> Ret(p1, <<C.backslash>>)
              [] ch = C.u -> call("parse_unicode_escape", <<p1, 4>>)
              [] ch = C.U -> call("parse_unicode_escape", <<p1, 8>>)
              [] OTHER -> Ret(set_error(p1, Msg("Invalid escape sequence in string: \\", <<ch>>)),
                              <<>>)

\* The loop of parse_basic_string.
RECURSIVE basic_string_loop(_, _)
basic_string_loop(p, str) ==
    IF ~eof(p) /\ peek(p) # C.dq THEN
        IF peek(p) = C.backslash
        THEN LET r == call("parse_escape_sequence", <<advance(p)>>)
             IN call("basic_string_loop", <<r.p, str \o r.v>>)
        ELSE call("basic_string_loop", <<advance(p), Append(str, peek(p))>>)
    ELSE Ret(p, str)

\* String TomlParser::parse_basic_string()
parse_basic_string(p) ==
    LET r == call("basic_string_loop", <<call("expect_char", <<p, C.dq>>), <<>>>>)
    IN Ret(call("expect_char", <<r.p, C.dq>>), r.v)

\* The loop of parse_literal_string.
RECURSIVE literal_string_loop(_, _)
literal_string_loop(p, str) ==
    IF ~eof(p) /\ peek(p) # C.sq
    THEN call("literal_string_loop", <<advance(p), Append(str, peek(p))>>)
    ELSE Ret(p, str)

\* String TomlParser::parse_literal_string()
parse_literal_string(p) ==
    LET r == call("literal_string_loop", <<call("expect_char", <<p, C.sq>>), <<>>>>)
    IN Ret(call("expect_char", <<r.p, C.sq>>), r.v)

\* while (!eof() && peek() == quote) { advance(); n++; }: the state after the run
\* and its length n.
RECURSIVE quote_run(_, _, _)
quote_run(p, quote, n) ==
    IF ~eof(p) /\ peek(p) = quote THEN call("quote_run", <<advance(p), quote, n + 1>>) ELSE Ret(p, n)

\* n copies of the byte ch.
repeat(ch, n) == [k \in 1..n |-> ch]

\* The loop of parse_multiline_basic_string (escapes = TRUE) and of
\* parse_multiline_literal_string (escapes = FALSE), which differ in the quote, in
\* the escape branch and in the message.
RECURSIVE multiline_loop(_, _, _, _)
multiline_loop(p, str, quote, escapes) ==
    IF ~eof(p) THEN
        IF peek(p) = quote THEN
            LET run == call("quote_run", <<p, quote, 0>>)
                n == run.v
            IN IF n >= 3 THEN
                   LET str1 == str \o repeat(quote, n - 3) IN
                   IF n = 3 \/ eof(run.p) \/ peek(run.p) = C.lf \/ peek(run.p) = C.cr
                   THEN Ret(run.p, str1)
                   ELSE call("multiline_loop", <<run.p, str1, quote, escapes>>)
               ELSE call("multiline_loop", <<run.p, str \o repeat(quote, n), quote, escapes>>)
        ELSE IF escapes /\ peek(p) = C.backslash
        THEN LET r == call("parse_escape_sequence", <<advance(p)>>)
             IN call("multiline_loop", <<r.p, str \o r.v, quote, escapes>>)
        ELSE call("multiline_loop", <<advance(p), Append(str, peek(p)), quote, escapes>>)
    ELSE Ret(set_error(p, Msg(IF escapes THEN "Unclosed multiline basic string"
                                         ELSE "Unclosed multiline literal string", <<>>)),
             str)

\* String TomlParser::parse_multiline_basic_string()
parse_multiline_basic_string(p) ==
    call("multiline_loop", <<IF ~eof(p) /\ peek(p) = C.lf THEN advance(p) ELSE p, <<>>, C.dq, TRUE>>)

\* String TomlParser::parse_multiline_literal_string()
parse_multiline_literal_string(p) ==
    call("multiline_loop", <<IF ~eof(p) /\ peek(p) = C.lf THEN advance(p) ELSE p, <<>>, C.sq, FALSE>>)

\* if (current_ + 2 < end_ && current_[1] == q && current_[2] == q) { current_ += 3;
\* return parse_multiline_..._string(); } return parse_..._string();  at a quote q
parse_quoted(p, quote) ==
    LET la == IF p.current_ + 2 < end_
              THEN call("lookahead", <<p.current_ + 1, <<{quote}, {quote}>>>>) ELSE NoLook
        p1 == noting(p, la)
    IN IF la.hit
       THEN IF quote = C.dq THEN call("parse_multiline_basic_string", <<jump(p1, 3)>>)
            ELSE call("parse_multiline_literal_string", <<jump(p1, 3)>>)
       ELSE IF quote = C.dq THEN call("parse_basic_string", <<p1>>) ELSE call("parse_literal_string", <<p1>>)

-----------------------------------------------------------------------------
(* Keys *)

\* while (!eof() && (std::isalnum(peek()) || peek() == '_' || peek() == '-')) key += advance();
RECURSIVE bare_key_loop(_, _)
bare_key_loop(p, key) ==
    IF ~eof(p) /\ (isalnum(peek(p)) \/ peek(p) = C.underscore \/ peek(p) = C.minus)
    THEN call("bare_key_loop", <<advance(p), Append(key, peek(p))>>)
    ELSE Ret(p, key)

\* The mutant of expected_key: the error is recorded and nothing is consumed.
expected_key_no_progress(p) == set_error(p, Msg("Expected key", <<>>))

\* if (key.empty()) { set_error("Expected key"); if (!eof()) advance(); }
expected_key(p) ==
    LET p1 == set_error(p, Msg("Expected key", <<>>))
    IN IF ~eof(p1) THEN advance(p1) ELSE p1

\* std::string TomlParser::parse_key()
parse_key(p0) ==
    LET p == skip_whitespace_no_nl(p0) IN
    IF peek(p) = C.dq THEN call("parse_quoted", <<p, C.dq>>)
    ELSE IF peek(p) = C.sq THEN call("parse_quoted", <<p, C.sq>>)
    ELSE LET r == call("bare_key_loop", <<p, <<>>>>)
         IN IF r.v = <<>> THEN Ret(expected_key(r.p), r.v) ELSE r

\* The loop of parse_dotted_key.
RECURSIVE dotted_key_loop(_, _)
dotted_key_loop(p, path) ==
    IF ~eof(p) /\ peek(p) = C.dot
    THEN LET r == call("parse_key", <<skip_whitespace_no_nl(advance(p))>>)
         IN call("dotted_key_loop", <<skip_whitespace_no_nl(r.p), Append(path, r.v)>>)
    ELSE Ret(p, path)

\* std::vector<std::string> TomlParser::parse_dotted_key()
parse_dotted_key(p) ==
    LET r == call("parse_key", <<p>>)
    IN call("dotted_key_loop", <<skip_whitespace_no_nl(r.p), <<r.v>>>>)

-----------------------------------------------------------------------------
(* Numbers.  An Integer is kept as its sign (1 = negative) followed by its      *)
(* decimal digits without leading zeros, so that all 64 bits of it fit.         *)

\* The bytes [first, last) of the buffer: std::string(first, last).
slice(first, last) == [k \in 1..(last - first) |-> at(first + k - 1)]

\* The digits (values 0..9) of a natural number.
RECURSIVE digits_of(_)
digits_of(n) == IF n < 10 THEN <<n>> ELSE Append(digits_of(n \div 10), n % 10)

\* Leading zeros removed (a single 0 is kept).
RECURSIVE strip_zeros(_)
strip_zeros(ds) == IF Len(ds) > 1 /\ ds[1] = 0 THEN strip_zeros(Tail(ds)) ELSE ds

\* ds * m + carry on decimal digits, most significant first.
RECURSIVE mul_add(_, _, _)
mul_add(ds, m, carry) ==
    IF ds = <<>> THEN digits_of(carry)
    ELSE LET x == ds[Len(ds)] * m + carry
         IN Append(mul_add(SubSeq(ds, 1, Len(ds) - 1), m, x \div 10), x % 10)

\* a < b for two sequences of the same length.
RECURSIVE lex_less(_, _)
lex_less(a, b) == IF a = <<>> THEN FALSE
                  ELSE IF a[1] # b[1] THEN a[1] < b[1]
                  ELSE lex_less(Tail(a), Tail(b))

\* a <= b for two naturals given by their digits without leading zeros.
digits_leq(a, b) == \/ Len(a) < Len(b)
                    \/ Len(a) = Len(b) /\ ~lex_less(b, a)

\* std::numeric_limits<long long>::max() = 2^63 - 1, and 2^63.
LLONG_MAX_digits == <<9, 2, 2, 3, 3, 7, 2, 0, 3, 6, 8, 5, 4, 7, 7, 5, 8, 0, 7>>

LLONG_MIN_digits == <<9, 2, 2, 3, 3, 7, 2, 0, 3, 6, 8, 5, 4, 7, 7, 5, 8, 0, 8>>

IntegerOf(negative, ds) ==
    Val("Integer", <<IF negative /\ ds # <<0>> THEN 1 ELSE 0>> \o ds)

\* Integer(0)
Integer0 == IntegerOf(FALSE, <<0>>)

\* v = -v
negated(v) == IF v.v = <<0, 0>> THEN v ELSE [v EXCEPT !.v[1] = 1 - @]

\* The value of a digit of strtoll in a base up to 16, -1 for any other byte.
digit_in(ch, base) == LET d == hex_digit(ch) IN IF d >= 0 /\ d < base THEN d ELSE -1

\* The longest run of digits of the base at the front of str, as decimal digits.
RECURSIVE digit_run(_, _, _, _)
digit_run(str, k, base, acc) ==
    IF k <= Len(str) /\ digit_in(str[k], base) >= 0
    THEN call("digit_run", <<str, k + 1, base, strip_zeros(mul_add(acc, base, digit_in(str[k], base)))>>)
    ELSE [next |-> k, ds |-> IF acc = <<>> THEN <<>> ELSE strip_zeros(acc)]

\* std::stoll(str, nullptr, base) on a string of digits, signs and letters (no
\* white space, no 0x prefix can reach it): an optional sign, then the longest run
\* of digits; what follows the run is ignored.  ok is FALSE where it throws
\* (std::invalid_argument for no digit, std::out_of_range beyond long long).
stoll(str, base) ==
    LET signed == str # <<>> /\ str[1] \in {C.plus, C.minus}
        negative == signed /\ str[1] = C.minus
        run == call("digit_run", <<str, IF signed THEN 2 ELSE 1, base, <<>>>>)
    IN IF run.ds = <<>> THEN [ok |-> FALSE, v |-> Integer0]
       ELSE IF ~digits_leq(run.ds, IF negative THEN LLONG_MIN_digits ELSE LLONG_MAX_digits)
       THEN [ok |-> FALSE, v |-> Integer0]
       ELSE [ok |-> TRUE, v |-> IntegerOf(negative, run.ds)]

\* The end of the longest run of decimal digits of str from index k.
decimal_run_end(str, k) ==
    CHOOSE q \in k..(Len(str) + 1) : /\ \A j \in k..(q - 1) : str[j] \in 48..57
                                     /\ ~(q <= Len(str) /\ str[q] \in 48..57)

\* The value of a run of decimal digits, kept at 10000 once it is beyond it.
RECURSIVE small_number(_, _)
small_number(ds, acc) ==
    IF ds = <<>> THEN acc
    ELSE small_number(Tail(ds), IF acc * 10 + (ds[1] - 48) > 10000 THEN 10000
                                ELSE acc * 10 + (ds[1] - 48))

\* The digits of DBL_MAX = 1.7976931348623157e308 and of DBL_MIN =
\* 2.2250738585072014e-308, 17 significant digits each.
DBL_MAX_digits == <<1, 7, 9, 7, 6, 9, 3, 1, 3, 4, 8, 6, 2, 3, 1, 5, 7>>

DBL_MIN_digits == <<2, 2, 2, 5, 0, 7, 3, 8, 5, 8, 5, 0, 7, 2, 0, 1, 4>>

\* The first 17 digits of ds, padded with zeros.
first17(ds) == [k \in 1..17 |-> IF k <= Len(ds) THEN ds[k] ELSE 0]

\* Whether the decimal number  0.d1 d2 ... x 10^e10  (d1 not 0) is beyond DBL_MAX
\* or under DBL_MIN, the cases in which strtod reports ERANGE.
out_of_double(significant, e10) ==
    \/ e10 > 309 \/ (e10 = 309 /\ lex_less(DBL_MAX_digits, first17(significant)))
    \/ e10 < -307 \/ (e10 = -307 /\ lex_less(first17(significant), DBL_MIN_digits))

\* The value of the mantissa (the digits of the integer part and of the fraction,
\* as numbers) with its exponent: ok unless it is out of the range of a double.
stod_value(mantissa, int_len, exponent) ==
    LET nonzero == {k \in DOMAIN mantissa : mantissa[k] # 0}
        lead == CHOOSE k \in nonzero : \A j \in nonzero : k <= j
    IN nonzero = {}
       \/ ~out_of_double(SubSeq(mantissa, lead, Len(mantissa)), int_len - lead + 1 + exponent)

\* The exponent of str at index k, where the mantissa ends: its end and its value
\* (the mantissa ends the number where no digit follows e, e+ or e-).
stod_exponent(str, k) ==
    LET exp_sign == IF k + 1 <= Len(str) /\ str[k + 1] \in {C.plus, C.minus} THEN 1 ELSE 0
        exp_end == IF k <= Len(str) /\ str[k] \in {C.e, C.E}
                   THEN decimal_run_end(str, k + 1 + exp_sign) ELSE k
        e == small_number(SubSeq(str, k + 1 + exp_sign, exp_end - 1), 0)
    IN IF exp_end > k + 1 + exp_sign
       THEN [stop |-> exp_end, value |-> IF str[k + 1] = C.minus THEN -e ELSE e]
       ELSE [stop |-> k, value |-> 0]

\* The number of str whose integer part is str[first .. int_end - 1] and whose
\* mantissa ends before frac_end.
stod_number(str, first, int_end, frac_end, exponent) ==
    LET digits == SubSeq(str, first, int_end - 1) \o SubSeq(str, int_end + 1, frac_end - 1)
    IN IF digits = <<>> THEN [ok |-> FALSE, text |-> <<>>]
       ELSE [ok |-> stod_value([k \in DOMAIN digits |-> digits[k] - 48],
                               int_end - first, exponent.value),
             text |-> SubSeq(str, 1, exponent.stop - 1)]

\* The number of str whose integer part is str[first .. int_end - 1].
stod_mantissa(str, first, int_end, frac_end) ==
    stod_number(str, first, int_end, frac_end, stod_exponent(str, frac_end))

\* The number of str whose integer part starts at index first.
stod_digits(str, first, int_end) ==
    stod_mantissa(str, first, int_end,
                  IF int_end <= Len(str) /\ str[int_end] = C.dot
                  THEN decimal_run_end(str, int_end + 1) ELSE int_end)

\* std::stod(str) on a string of digits, dots, signs and e/E: strtod converts the
\* longest prefix  [sign] digits [. digits] [(e|E) [sign] digits]  with a digit
\* in the mantissa, and stod throws std::invalid_argument where there is none,
\* std::out_of_range where strtod reports ERANGE.  text is the prefix converted.
stod(str) ==
    IF str # <<>> /\ str[1] \in {C.plus, C.minus}
    THEN stod_digits(str, 2, decimal_run_end(str, 2))
    ELSE stod_digits(str, 1, decimal_run_end(str, 1))

\* for (char ch : num_str) if (ch != '_') num_clean += ch;
without_underscores(str) == SelectSeq(str, LAMBDA ch : ch # C.underscore)

\* "Invalid integer: " + text, "Invalid float: " + text
InvalidIntegerMsg(text) == Msg("Invalid integer: ", text)

InvalidFloatMsg(text) == Msg("Invalid float: ", text)

\* Float(0.0)
Float0 == Float(<<C.d0, C.dot, C.d0>>)

-----------------------------------------------------------------------------
(* Dates and times *)

\* The value of a char of the build (signed).
char_value(ch) == IF ch >= 128 THEN ch - 256 ELSE ch

\* The loop of parse_int: n digits read so far into v.
RECURSIVE parse_int_loop(_, _, _, _)
parse_int_loop(ptr, n, max_digits, v) ==
    IF ptr < end_ /\ n < max_digits /\ isdigit(at(ptr))
    THEN call("parse_int_loop", <<ptr + 1, n + 1, max_digits, v * 10 + (char_value(at(ptr)) - 48)>>)
    ELSE [ptr |-> ptr, n |-> n, v |-> v]

\* static bool parse_int(const char*& ptr, const char* end, int min_digits,
\*                       int max_digits, int64_t& out)
parse_int(ptr, min_digits, max_digits) ==
    IF ptr >= end_ \/ ~isdigit(at(ptr)) THEN [ok |-> FALSE, ptr |-> ptr, out |-> 0]
    ELSE LET r == call("parse_int_loop", <<ptr, 0, max_digits, 0>>)
         IN [ok |-> r.n >= min_digits, ptr |-> r.ptr, out |-> r.v]

\* static bool is_value_terminator(char c)
is_value_terminator(ch) ==
    ch = C.sp \/ ch = C.tab \/ ch = C.lf \/ ch = C.cr \/ ch = C.comma
        \/ ch = C.rbracket \/ ch = C.rbrace \/ ch = C.hash

\* year % 4 == 0 && (year % 100 != 0 || year % 400 == 0)
leap(year) == year % 4 = 0 /\ (year % 100 # 0 \/ year % 400 = 0)

\* static const int days_in_month[]
days_in_month == <<31, 28, 31, 30, 31, 30, 31, 31, 30, 31, 30, 31>>

\* The mutant of max_day_in_month: February has 28 days in every year.
max_day_no_leap(year, month) == days_in_month[month]

\* static int max_day_in_month(int64_t year, int64_t month)
max_day_in_month(year, month) ==
    IF month = 2 /\ leap(year) THEN 29 ELSE days_in_month[month]

\* for (int yy = 1970; yy < y; ++yy) days += leap(yy) ? 366 : 365;
RECURSIVE days_of_years(_, _)
days_of_years(yy, y) ==
    IF yy < y THEN (IF leap(yy) THEN 366 ELSE 365) + days_of_years(yy + 1, y) ELSE 0

\* for (int mm = 0; mm < m - 1; ++mm) days += days_in_month[mm];
RECURSIVE days_of_months(_, _)
days_of_months(mm, m) ==
    IF mm < m - 1 THEN days_in_month[mm + 1] + days_of_months(mm + 1, m) ELSE 0

\* The mutant of days_from_1970: the 29th of February is not counted.
days_from_1970_without_leap_day(y, m, d) ==
    days_of_years(1970, y) + days_of_months(0, m) + (d - 1)

\* static int days_from_1970(int y, int m, int d)
days_from_1970(y, m, d) ==
    days_of_years(1970, y) + days_of_months(0, m)
        + (IF m > 2 /\ leap(y) THEN 1 ELSE 0) + (d - 1)

\* static std::time_t tm_to_time_t_utc(const std::tm& tm), of the fields of tm
tm_to_time_t_utc(year, month, day, hour, minute, second) ==
    call("days_from_1970", <<year, month, day>>) * 86400 + hour * 3600 + minute * 60 + second

\* if (t < 0): t is at least 24855 * 86400 - 2^31 when the days are 24855 or
\* more, which the model's integers cannot hold and which is not negative.
time_t_negative(year, month, day, hour, minute, second) ==
    IF call("days_from_1970", <<year, month, day>>) >= 24855 THEN FALSE
    ELSE call("tm_to_time_t_utc", <<year, month, day, hour, minute, second>>) < 0

\* std::nullopt
nullopt == Val("nullopt", <<>>)

\* current_ = start; return std::nullopt;
not_datetime(p, start) == Ret(move(p, start), nullopt)

\* The mutant of bad_datetime: the cursor is left past the first byte read.
bad_datetime_cursor_moved(p, start, text) ==
    Ret(move(set_error(p, Msg(text, <<>>)), start + 1), nullopt)

\* set_error(message); current_ = start; return std::nullopt;
bad_datetime(p, start, text) == Ret(move(set_error(p, Msg(text, <<>>)), start), nullopt)

\* current_ = ptr; return TomlValue(String(first, last));
lexeme(p, ptr, first, last) == Ret(move(p, ptr), String(slice(first, last)))

\* p >= end_ || *p != ch
not_at(ptr, ch) == ptr >= end_ \/ at(ptr) # ch

\* p < end_ && !is_value_terminator(*p)
garbage_at(ptr) == ptr < end_ /\ ~is_value_terminator(at(ptr))

\* The pattern DD:DD:DD of eight bytes.
TimePattern == <<Digits, Digits, {C.colon}, Digits, Digits, {C.colon}, Digits, Digits>>

\* The pattern DDDD-DD-DD of ten bytes.
DatePattern == <<Digits, Digits, Digits, Digits, {C.minus}, Digits, Digits, {C.minus},
                 Digits, Digits>>

\* HH:MM:SS from ptr: the three parse_int calls and the two colon tests of the
\* date-time branch and of the time-only branch, which differ in the word of
\* their messages ("datetime" / "time").  status is "ok", "none" (not a date or
\* time, no error) or the error message.
clock_fields(ptr, hour_msg, minute_msg, second_msg) ==
    LET h == call("parse_int", <<ptr, 2, 2>>) IN
    IF ~h.ok \/ h.out > 23 THEN [status |-> hour_msg]
    ELSE IF not_at(h.ptr, C.colon) THEN [status |-> "none"]
    ELSE LET m == call("parse_int", <<h.ptr + 1, 2, 2>>) IN
    IF ~m.ok \/ m.out > 59 THEN [status |-> minute_msg]
    ELSE IF not_at(m.ptr, C.colon) THEN [status |-> "none"]
    ELSE LET s == call("parse_int", <<m.ptr + 1, 2, 2>>) IN
    IF ~s.ok \/ s.out > 60 THEN [status |-> second_msg]
    ELSE [status |-> "ok", hour |-> h.out, minute |-> m.out, second |-> s.out, ptr |-> s.ptr]

\* while (p < end_ && std::isdigit(*p)) ++p;
digits_end(ptr) ==
    CHOOSE q \in ptr..end_ : /\ \A k \in ptr..(q - 1) : isdigit(at(k))
                             /\ ~(q < end_ /\ isdigit(at(q)))

\* The offset of a date-time from ptr: Z, z, or a sign with HH:MM.
\* status is "ok", "none" (no offset) or "error".
offset_field(ptr) ==
    IF ptr < end_ /\ (at(ptr) = C.Z \/ at(ptr) = C.z)
    THEN [status |-> "ok", ptr |-> ptr + 1, offset_minutes |-> 0]
    ELSE IF ptr + 1 < end_ /\ (at(ptr) = C.plus \/ at(ptr) = C.minus) THEN
        LET oh == call("parse_int", <<ptr + 1, 2, 2>>) IN
        IF oh.ok /\ oh.out <= 23 /\ oh.ptr < end_ /\ at(oh.ptr) = C.colon THEN
            LET om == call("parse_int", <<oh.ptr + 1, 2, 2>>) IN
            IF om.ok /\ om.out <= 59
            THEN [status |-> "ok", ptr |-> om.ptr,
                  offset_minutes |-> (oh.out * 60 + om.out) * (IF at(ptr) = C.minus THEN -1 ELSE 1)]
            ELSE [status |-> "error"]
        ELSE [status |-> "error"]
    ELSE [status |-> "none", ptr |-> ptr]

\* if (raw.size() >= 19 && raw[10] == ' ') raw[10] = 'T';
normalized(raw) == IF Len(raw) >= 19 /\ raw[11] = C.sp THEN [raw EXCEPT ![11] = C.T] ELSE raw

\* The time of a date-time from ptr, after the date year-month-day and its
\* separator: the block  if (end_ - p >= 8) { ... }  of try_parse_datetime.
datetime_time(p, start, ptr, year, month, day) ==
    LET clock == call("clock_fields", <<ptr, "Invalid datetime: hour must be 00-23",
                              "Invalid datetime: minute must be 00-59",
                              "Invalid datetime: second must be 00-60">>)
    IN
    IF clock.status = "none" THEN call("not_datetime", <<p, start>>)
    ELSE IF clock.status # "ok" THEN call("bad_datetime", <<p, start, clock.status>>)
    ELSE
    LET dotted == clock.ptr < end_ /\ at(clock.ptr) = C.dot
        frac_start == clock.ptr + 1
        frac_end == digits_end(frac_start)
        frac == slice(frac_start, frac_end)
        after == IF dotted THEN frac_end ELSE clock.ptr
    IN
    IF dotted /\ frac_end = frac_start
    THEN call("bad_datetime", <<p, start, "Invalid datetime: fractional seconds must have at least one digit">>)
    ELSE IF dotted /\ ~call("stod", <<<<C.d0, C.dot>> \o frac>>).ok
    THEN Ret([p EXCEPT !.uncaught = Msg("stod", <<>>)], nullopt)
    ELSE
    LET offset == call("offset_field", <<after>>) IN
    IF offset.status = "error"
    THEN call("bad_datetime", <<p, start, "Invalid datetime: offset must be Z or +-HH:MM">>)
    ELSE IF call("time_t_negative", <<year, month, day, clock.hour, clock.minute, clock.second>>)
    THEN call("not_datetime", <<p, start>>)
    ELSE IF offset.status = "ok" THEN
        IF year < 1970 \/ year > 2037
        THEN Ret(move(p, offset.ptr), String(normalized(slice(start, offset.ptr))))
        ELSE Ret(move(p, offset.ptr),
                 DateTimeOffset(call("tm_to_time_t_utc", <<year, month, day, clock.hour, clock.minute,
                                                 clock.second>>) - offset.offset_minutes * 60,
                                offset.offset_minutes,
                                IF dotted THEN frac ELSE <<>>))
    ELSE IF call("garbage_at", <<offset.ptr>>)
    THEN call("bad_datetime", <<p, start, "Invalid datetime: unexpected character after time">>)
    ELSE call("lexeme", <<p, offset.ptr, start, offset.ptr>>)

\* What follows the date of try_parse_datetime, at ptr = start + 10.
datetime_after_date(p, start, ptr, year, month, day) ==
    IF ptr = end_ THEN call("lexeme", <<p, ptr, start, ptr>>)
    ELSE IF at(ptr) \in {C.sp, C.T, C.t} THEN
        LET spaced == at(ptr) = C.sp
            q == ptr + 1
            la == IF end_ - q >= 8 THEN call("lookahead", <<q, TimePattern>>) ELSE NoLook
            p1 == IF spaced /\ ~(end_ - ptr < 9) THEN noting(p, la) ELSE p
        IN IF spaced /\ (end_ - ptr < 9 \/ ~la.hit) THEN call("lexeme", <<p1, ptr, start, ptr>>)
           ELSE IF end_ - q >= 8 THEN call("datetime_time", <<p1, start, q, year, month, day>>)
           ELSE IF call("garbage_at", <<q>>)
           THEN call("bad_datetime", <<p1, start, "Invalid date: unexpected character after date">>)
           ELSE call("lexeme", <<p1, q, start, q>>)
    ELSE IF call("garbage_at", <<ptr>>)
    THEN call("bad_datetime", <<p, start, "Invalid date: unexpected character after date">>)
    ELSE call("lexeme", <<p, ptr, start, start + 10>>)

\* The date branch of try_parse_datetime, its pattern having matched at start.
datetime_date(p, start) ==
    LET year == call("parse_int", <<start, 4, 4>>) IN
    IF ~year.ok THEN call("not_datetime", <<p, start>>)
    ELSE IF not_at(year.ptr, C.minus) THEN call("not_datetime", <<p, start>>)
    ELSE LET month == call("parse_int", <<year.ptr + 1, 2, 2>>) IN
    IF ~month.ok \/ month.out < 1 \/ month.out > 12
    THEN call("bad_datetime", <<p, start, "Invalid date: month must be 01-12">>)
    ELSE IF not_at(month.ptr, C.minus) THEN call("not_datetime", <<p, start>>)
    ELSE LET day == call("parse_int", <<month.ptr + 1, 2, 2>>) IN
    IF ~day.ok \/ day.out < 1 \/ day.out > 31
    THEN call("bad_datetime", <<p, start, "Invalid date: day must be 01-31">>)
    ELSE IF day.out > call("max_day_in_month", <<year.out, month.out>>)
    THEN call("bad_datetime", <<p, start, "Invalid date: day out of range for month">>)
    ELSE call("datetime_after_date", <<p, start, day.ptr, year.out, month.out, day.out>>)

\* The time-only branch of try_parse_datetime, its pattern having matched at start.
datetime_time_only(p, start) ==
    LET clock == call("clock_fields", <<start, "Invalid time: hour must be 00-23",
                              "Invalid time: minute must be 00-59",
                              "Invalid time: second must be 00-60">>)
    IN
    IF clock.status = "none" THEN call("not_datetime", <<p, start>>)
    ELSE IF clock.status # "ok" THEN call("bad_datetime", <<p, start, clock.status>>)
    ELSE LET after == IF clock.ptr < end_ /\ at(clock.ptr) = C.dot
                      THEN digits_end(clock.ptr + 1) ELSE clock.ptr
         IN IF call("garbage_at", <<after>>)
            THEN call("bad_datetime", <<p, start, "Invalid time: unexpected character after time">>)
            ELSE call("lexeme", <<p, after, start, after>>)

\* Records a call of try_parse_datetime: the cursor on entry and on exit, whether
\* it returned a value, whether it recorded an error, whether it returned at all.
note_datetime(entry, errors, r) ==
    Ret([r.p EXCEPT !.hist.datetime_calls =
             @ \cup {[entry |-> entry, exit |-> r.p.current_, value |-> r.v # nullopt,
                      error |-> r.p.hist.errors > errors, returned |-> r.p.uncaught = NoMsg]}],
        r.v)

\* std::optional<TomlValue> TomlParser::try_parse_datetime()
try_parse_datetime(p) ==
    LET start == p.current_
        date == IF end_ - p.current_ >= 10 THEN call("lookahead", <<p.current_, DatePattern>>) ELSE NoLook
        p1 == noting(p, date)
        time == IF end_ - p.current_ >= 8 THEN call("lookahead", <<p.current_, TimePattern>>) ELSE NoLook
        p2 == noting(p1, time)
    IN note_datetime(start, p.hist.errors,
                     IF date.hit THEN call("datetime_date", <<p1, start>>)
                     ELSE IF time.hit THEN call("datetime_time_only", <<p2, start>>)
                     ELSE Ret(p2, nullopt))

-----------------------------------------------------------------------------
(* Values *)

\* An exception is unwinding: every method returns to its caller at once.
thrown(p) == p.uncaught # NoMsg

\* Control does not come back from a call: an exception or an endless loop.
lost(p) == thrown(p) \/ p.hist.stalled

\* An iteration of a loop ended where it began and the loop goes on: the source
\* would repeat it for ever; the model notes it and leaves the loop.
stall(p) == [p EXCEPT !.hist.stalled = TRUE]

\* expect_char(chars[1]); expect_char(chars[2]); ...
RECURSIVE expect_chars(_, _)
expect_chars(p, chars) ==
    IF chars = <<>> THEN p ELSE call("expect_chars", <<call("expect_char", <<p, chars[1]>>), Tail(chars)>>)

\* Boolean TomlParser::parse_boolean()
parse_boolean(p) ==
    IF peek(p) = C.t THEN Ret(call("expect_chars", <<p, <<C.t, C.r, C.u, C.e>>>>), Boolean(TRUE))
    ELSE Ret(call("expect_chars", <<p, <<C.f, C.a, C.l, C.s, C.e>>>>), Boolean(FALSE))

\* end_ - base >= 3 && base[0] == w1 && base[1] == w2 && base[2] == w3 &&
\* (base + 3 >= end_ || !(std::isalnum(base[3]) || base[3] == '_'))
special_at(base, word) ==
    IF ~(end_ - base >= 3) THEN NoLook
    ELSE LET la == call("lookahead", <<base, <<{word[1]}, {word[2]}, {word[3]}>>>>) IN
         IF ~la.hit \/ base + 3 >= end_ THEN la
         ELSE [hit |-> ~(isalnum(at(base + 3)) \/ at(base + 3) = C.underscore),
               oob |-> la.oob \/ ~(0 <= base + 3 /\ base + 3 < end_)]

\* The digits of a prefixed integer: is_hex, is_oct, is_bin
is_hex(ch) == isdigit(ch) \/ (ch >= C.a /\ ch <= C.f) \/ (ch >= C.A /\ ch <= C.F)

is_oct(ch) == ch >= C.d0 /\ ch <= C.d7

is_bin(ch) == ch = C.d0 \/ ch = C.d1

\* The loop over the digits and underscores of a prefixed integer.
RECURSIVE prefixed_loop(_, _, _)
prefixed_loop(p, base, num_clean) ==
    IF ~eof(p) /\ (\/ peek(p) = C.underscore
                   \/ base = 16 /\ is_hex(peek(p))
                   \/ base = 8 /\ is_oct(peek(p))
                   \/ base = 2 /\ is_bin(peek(p)))
    THEN call("prefixed_loop", <<advance(p), base,
                       IF peek(p) # C.underscore THEN Append(num_clean, peek(p)) ELSE num_clean>>)
    ELSE Ret(p, num_clean)

\* The body of  if (base != 0) { ... }  of parse_value: the cursor is on the 0 of
\* the prefix, start is where the value began.
prefixed_integer(p, start, base) ==
    LET r == call("prefixed_loop", <<jump(p, 2), base, <<>>>>) IN
    IF r.v = <<>> THEN Ret(set_error(r.p, Msg("Invalid integer literal", <<>>)), Integer0)
    ELSE LET n == call("stoll", <<r.v, base>>) IN
         IF n.ok THEN Ret(r.p, IF start < end_ /\ at(start) = C.minus THEN negated(n.v) ELSE n.v)
         ELSE Ret(set_error(r.p, InvalidIntegerMsg(slice(start, r.p.current_))), Integer0)

\* The loop over the bytes of a decimal number; failed: a second dot ended it.
RECURSIVE number_loop(_, _, _)
number_loop(p, has_dot, has_exp) ==
    IF ~eof(p) /\ (\/ isdigit(peek(p))
                   \/ peek(p) \in {C.dot, C.e, C.E, C.plus, C.minus, C.underscore})
    THEN IF peek(p) = C.dot /\ has_dot
         THEN [p |-> set_error(p, Msg("Double dot not allowed in float", <<>>)),
               has_dot |-> has_dot, has_exp |-> has_exp, failed |-> TRUE]
         ELSE call("number_loop", <<advance(p), has_dot \/ peek(p) = C.dot,
                          has_exp \/ peek(p) = C.e \/ peek(p) = C.E>>)
    ELSE [p |-> p, has_dot |-> has_dot, has_exp |-> has_exp, failed |-> FALSE]

\* The decimal number of parse_value, from the leading-dot test to the end.
decimal_number(p, start) ==
    IF p.current_ = start /\ peek(p) = C.dot
    THEN Ret(set_error(p, Msg("Leading dot not allowed in number", <<>>)), Float0)
    ELSE
    LET la == IF p.current_ = start /\ peek(p) = C.d0 /\ p.current_ + 1 < end_
              THEN call("lookahead", <<p.current_ + 1, <<Digits>>>>) ELSE NoLook
        p1 == noting(p, la)
    IN
    IF la.hit
    THEN Ret(set_error(p1, Msg("Leading zero not allowed in decimal integer", <<>>)), Integer0)
    ELSE
    LET scan == call("number_loop", <<p1, FALSE, FALSE>>)
        num_str == slice(start, scan.p.current_)
        num_clean == without_underscores(num_str)
    IN
    IF scan.failed THEN Ret(scan.p, Float0)
    ELSE IF scan.has_dot /\ ~scan.has_exp /\ num_str # <<>> /\ num_str[Len(num_str)] = C.dot
    THEN Ret(set_error(scan.p, Msg("Trailing dot not allowed in float", <<>>)), Float0)
    ELSE IF scan.has_dot \/ scan.has_exp
    THEN LET d == call("stod", <<num_clean>>) IN
         IF d.ok THEN Ret(scan.p, Float(d.text))
         ELSE Ret(set_error(scan.p, InvalidFloatMsg(num_str)), Float0)
    ELSE LET n == call("stoll", <<num_clean, 10>>) IN
         IF n.ok THEN Ret(scan.p, n.v)
         ELSE Ret(set_error(scan.p, InvalidIntegerMsg(num_str)), Integer0)

\* The number of parse_value from the test for a prefixed integer:
\* if (current_ < end_ && *current_ == '0' && current_ + 2 <= end_) { char n = current_[1]; ...
unsigned_number(p, start) ==
    LET prefix == p.current_ < end_ /\ at(p.current_) = C.d0 /\ p.current_ + 2 <= end_
        n == at(p.current_ + 1)
    IN IF prefix /\ (n = C.x \/ n = C.X) THEN call("prefixed_integer", <<touch(p, p.current_ + 1), start, 16>>)
       ELSE IF prefix /\ (n = C.o \/ n = C.O) THEN call("prefixed_integer", <<touch(p, p.current_ + 1), start, 8>>)
       ELSE IF prefix /\ (n = C.b \/ n = C.B) THEN call("prefixed_integer", <<touch(p, p.current_ + 1), start, 2>>)
       ELSE IF prefix THEN call("decimal_number", <<touch(p, p.current_ + 1), start>>)
       ELSE call("decimal_number", <<p, start>>)

\* The number of parse_value after advance() over its sign: inf, nan, or a number.
signed_number(p, start) ==
    LET inf == IF ~eof(p) /\ peek(p) = C.i
               THEN call("special_at", <<p.current_, <<C.i, C.n, C.f>>>>) ELSE NoLook
        nan == IF ~inf.hit /\ ~eof(p) /\ peek(p) = C.n
               THEN call("special_at", <<p.current_, <<C.n, C.a, C.n>>>>) ELSE NoLook
        sign == IF at(start) = C.minus THEN <<C.minus>> ELSE <<>>
    IN IF inf.hit THEN Ret(jump(noting(p, inf), 3), Float(sign \o <<C.i, C.n, C.f>>))
       ELSE IF nan.hit THEN Ret(jump(noting(p, nan), 3), Float(sign \o <<C.n, C.a, C.n>>))
       ELSE unsigned_number(noting(noting(p, inf), nan), start)

\* The number of parse_value, after the date and time attempts: the sign with
\* inf and nan, the prefixed integers, the decimal number.  ch is the first byte.
number(p, ch) ==
    IF ch = C.plus \/ ch = C.minus THEN signed_number(advance(p), p.current_)
    ELSE unsigned_number(p, p.current_)

\* The two date and time attempts of parse_value, then the number.
\* if (pattern) { auto dt = try_parse_datetime(); if (dt) return *dt;
\*                if (has_error()) return Integer(0); }
number_or_datetime(p, ch) ==
    LET date == IF isdigit(ch) /\ end_ - p.current_ >= 10
                THEN call("lookahead", <<p.current_, <<Digits, Digits, Digits, Digits, {C.minus}>>>>)
                ELSE NoLook
        p1 == noting(p, date)
        dt1 == IF date.hit THEN call("try_parse_datetime", <<p1>>) ELSE Ret(p1, nullopt)
        first_returns == date.hit /\ (lost(dt1.p) \/ dt1.v # nullopt \/ has_error(dt1.p))
        time == IF isdigit(ch) /\ end_ - dt1.p.current_ >= 8
                THEN call("lookahead", <<dt1.p.current_, <<Digits, Digits, {C.colon}>>>>) ELSE NoLook
        p2 == noting(dt1.p, time)
        dt2 == IF time.hit THEN call("try_parse_datetime", <<p2>>) ELSE Ret(p2, nullopt)
        second_returns == time.hit /\ (lost(dt2.p) \/ dt2.v # nullopt \/ has_error(dt2.p))
    IN IF first_returns THEN (IF dt1.v # nullopt THEN dt1 ELSE Ret(dt1.p, Integer0))
       ELSE IF second_returns THEN (IF dt2.v # nullopt THEN dt2 ELSE Ret(dt2.p, Integer0))
       ELSE call("number", <<dt2.p, ch>>)

\* for (;;) { skip_whitespace(); if (peek() == ']') goto end_array_loop;
\*            if (peek() == '#') { skip_comment(); continue; } break; }
\* v: whether it left by the goto.
RECURSIVE array_gap(_)
array_gap(p0) ==
    LET p == skip_whitespace(p0) IN
    IF peek(p) = C.rbracket THEN Ret(p, TRUE)
    ELSE IF peek(p) = C.hash THEN call("array_gap", <<call("skip_comment", <<p>>)>>)
    ELSE Ret(p, FALSE)

\* The loop  while (!eof()) { ... }  of parse_array, filling the array arr.
RECURSIVE array_loop(_, _)
array_loop(p, arr) ==
    IF eof(p) THEN p
    ELSE LET gap == call("array_gap", <<p>>) IN
    IF gap.v THEN gap.p
    ELSE LET value == call("parse_value", <<gap.p>>) IN
    IF lost(value.p) THEN value.p
    ELSE LET p1 == skip_whitespace(call("skip_comment", <<skip_whitespace(
                        append(value.p, arr, value.v))>>))
         IN IF peek(p1) = C.comma
            THEN LET p2 == call("skip_comment", <<skip_whitespace(advance(p1))>>)
                 IN IF p2.current_ = p.current_ THEN stall(p2) ELSE call("array_loop", <<p2, arr>>)
            ELSE IF peek(p1) # C.rbracket
            THEN set_error(p1, Msg("Expected ',' or ']' in array", <<>>))
            ELSE IF p1.current_ = p.current_ THEN stall(p1) ELSE call("array_loop", <<p1, arr>>)

\* ArrayPtr TomlParser::parse_array()
parse_array(p) ==
    LET p1 == make_shared(call("skip_comment", <<skip_whitespace(call("expect_char", <<p, C.lbracket>>))>>),
                          Array(<<>>))
        arr == newest(p1)
    IN IF peek(p1) = C.rbracket THEN Ret(advance(p1), ArrayPtr(arr))
       ELSE LET p2 == call("array_loop", <<p1, arr>>)
            IN IF lost(p2) THEN Ret(p2, ArrayPtr(arr))
               ELSE Ret(call("expect_char", <<p2, C.rbracket>>), ArrayPtr(arr))

\* The loop  while (!eof()) { ... }  of parse_inline_table, filling table.
RECURSIVE inline_table_loop(_, _)
inline_table_loop(p, table) ==
    IF eof(p) THEN p
    ELSE LET path == call("parse_dotted_key", <<p>>) IN
    IF path.v = <<>> THEN path.p
    ELSE LET value == call("parse_value", <<skip_whitespace_no_nl(
                          call("expect_char", <<skip_whitespace_no_nl(path.p), C.eq>>))>>)
    IN IF lost(value.p) THEN value.p
    ELSE LET p1 == skip_whitespace_no_nl(call("set_value_at_path", <<value.p, table, path.v, value.v>>))
         IN IF peek(p1) = C.rbrace THEN p1
            ELSE LET p2 == skip_whitespace_no_nl(call("expect_char", <<p1, C.comma>>))
                 IN IF p2.current_ = p.current_ THEN stall(p2)
                    ELSE call("inline_table_loop", <<p2, table>>)

\* TablePtr TomlParser::parse_inline_table()
parse_inline_table(p) ==
    LET p1 == make_shared(skip_whitespace_no_nl(call("expect_char", <<p, C.lbrace>>)), Table(<<>>))
        table == newest(p1)
    IN IF peek(p1) = C.rbrace THEN Ret(advance(p1), TablePtr(table))
       ELSE LET p2 == call("inline_table_loop", <<p1, table>>)
            IN IF lost(p2) THEN Ret(p2, TablePtr(table))
               ELSE Ret(call("expect_char", <<p2, C.rbrace>>), TablePtr(table))

\* TomlValue TomlParser::parse_value()
parse_value(p0) ==
    LET p == skip_whitespace_no_nl(p0)
        ch == peek(p)
        inf == IF ch = C.i THEN call("special_at", <<p.current_, <<C.i, C.n, C.f>>>>) ELSE NoLook
        nan == IF ch = C.n THEN call("special_at", <<p.current_, <<C.n, C.a, C.n>>>>) ELSE NoLook
    IN IF ch = C.dq \/ ch = C.sq
       THEN LET r == call("parse_quoted", <<p, ch>>) IN Ret(r.p, String(r.v))
       ELSE IF ch = C.lbracket THEN call("parse_array", <<p>>)
       ELSE IF ch = C.lbrace THEN call("parse_inline_table", <<p>>)
       ELSE IF isdigit(ch) \/ ch = C.plus \/ ch = C.minus \/ ch = C.dot
       THEN call("number_or_datetime", <<p, ch>>)
       ELSE IF ch = C.t \/ ch = C.f THEN call("parse_boolean", <<p>>)
       ELSE IF inf.hit THEN Ret(jump(noting(p, inf), 3), Float(<<C.i, C.n, C.f>>))
       ELSE IF nan.hit THEN Ret(jump(noting(noting(p, inf), nan), 3), Float(<<C.n, C.a, C.n>>))
       ELSE Ret(set_error(noting(noting(p, inf), nan),
                          Msg("Unexpected character in value: ", <<ch>>)),
                Integer0)

-----------------------------------------------------------------------------
(* parse() and the document driver *)

\* The mutant of is_forbidden_control: U+007F is let through.
is_forbidden_control_without_del(u) ==
    IF u = 9 \/ u = 10 THEN FALSE
    ELSE IF u = 13 THEN FALSE
    ELSE u <= 31

\* static bool is_forbidden_control(char c), on u = static_cast<unsigned char>(c)
is_forbidden_control(u) ==
    IF u = 9 \/ u = 10 THEN FALSE
    ELSE IF u = 13 THEN FALSE
    ELSE IF u <= 31 \/ u = 127 THEN TRUE
    ELSE FALSE

\* The loop of parse() over the bytes of the input: whether it ends in set_error
\* and return nullptr.  The byte input[i] of the source is str[i + 1].
prescan_fails(str) ==
    \E i \in 0..(Len(str) - 1) :
        IF str[i + 1] = C.cr THEN i + 1 >= Len(str) \/ str[i + 2] # C.lf
        ELSE is_forbidden_control(str[i + 1])

\* skip_whitespace_no_nl(); skip_comment(); set_value_at_path(table, path, value);
\* an exception in parse_value() leaves the method before them.
key_value_assign(path, value, table) ==
    note_path(IF lost(value.p) THEN value.p
              ELSE call("set_value_at_path", <<call("skip_comment", <<skip_whitespace_no_nl(value.p)>>),
                                     table, path.v, value.v>>),
              path.v)

\* if (path.empty()) return; skip_whitespace_no_nl(); expect_char('=');
\* skip_whitespace_no_nl(); TomlValue value = parse_value(); ...
key_value_after_key(path, table) ==
    IF path.v = <<>> THEN note_path(path.p, <<>>)
    ELSE key_value_assign(path,
                          call("parse_value", <<skip_whitespace_no_nl(
                              call("expect_char", <<skip_whitespace_no_nl(path.p), C.eq>>))>>),
                          table)

\* void TomlParser::parse_key_value_pair(std::shared_ptr<Table> table)
parse_key_value_pair(p, table) ==
    key_value_after_key(call("parse_dotted_key", <<p>>), table)

\* if (!eof() && peek() != '#' && peek() != '[') { skip_whitespace(); }
key_value_second_skip(p) ==
    IF ~eof(p) /\ peek(p) # C.hash /\ peek(p) # C.lbracket THEN skip_whitespace(p)
    ELSE p

\* The last branch of the loop of parse_document, after parse_key_value_pair:
\* skip_whitespace(); and the second skip_whitespace().
key_value_end(p) ==
    IF lost(p) THEN p ELSE key_value_second_skip(skip_whitespace(p))

\* if (is_array_of_tables) { expect_char(']'); expect_char(']'); }
\* else { expect_char(']'); }
header_close(p, is_array_of_tables) ==
    IF is_array_of_tables THEN call("expect_char", <<call("expect_char", <<p, C.rbracket>>), C.rbracket>>)
    ELSE call("expect_char", <<p, C.rbracket>>)

\* if (path.empty()) { set_error("Empty table header"); return; }
\* skip_whitespace(); ... skip_whitespace(); skip_comment();
header_after_path(path, is_array_of_tables) ==
    IF path.v = <<>>
    THEN [p |-> set_error(path.p, Msg("Empty table header", <<>>)), path |-> <<>>,
          is_array_of_tables |-> is_array_of_tables, empty |-> TRUE]
    ELSE [p |-> call("skip_comment", <<skip_whitespace(
                    header_close(skip_whitespace(path.p), is_array_of_tables))>>),
          path |-> path.v, is_array_of_tables |-> is_array_of_tables, empty |-> FALSE]

\* if (peek() == '[') { is_array_of_tables = true; advance(); skip_whitespace(); }
\* std::vector<std::string> path = parse_dotted_key();
header_after_bracket(p) ==
    header_after_path(call("parse_dotted_key", <<IF peek(p) = C.lbracket
                                       THEN skip_whitespace(advance(p)) ELSE p>>),
                      peek(p) = C.lbracket)

\* The header of parse_document, from advance() over '[' to skip_comment():
\* p is the state after it, path the dotted key read, empty whether the method
\* returned on an empty path.
header(p) == header_after_bracket(skip_whitespace(advance(p)))

\* The kind of step a header is.
header_kind(h) == IF h.is_array_of_tables THEN "array_header" ELSE "header"

\* current_table_ = get_or_create_..._table(path); if (!current_table_) return;
\* r is what the lookup returned; returns is whether parse_document returned.
header_assign(h, r) ==
    [p |-> noted([r.p EXCEPT !.current_table_ = r.v,
                             !.hist.last_header = header_kind(h)],
                 header_kind(h), h.path, r.p.root_table_),
     returns |-> r.v = 0]

\* if (is_array_of_tables) { current_table_ = get_or_create_array_append_table(path); }
\* else { current_table_ = get_or_create_table_at_path(path); }
header_lookup(h) ==
    IF h.empty
    THEN [p |-> noted(h.p, header_kind(h), h.path, h.p.root_table_), returns |-> TRUE]
    ELSE header_assign(h, IF h.is_array_of_tables
                          THEN call("get_or_create_array_append_table", <<h.p, h.path>>)
                          ELSE call("get_or_create_table_at_path", <<h.p, h.path>>))

\* The branch  if (peek() == '[') { ... continue; }  of the loop of parse_document.
header_branch(p) == header_lookup(call("header", <<p>>))

\* The branch of the loop of parse_document for a key-value pair.
key_value_branch(p) ==
    noted_path(key_value_end(call("parse_key_value_pair", <<p, p.current_table_>>)),
               "key_value", p.current_table_)

\* The method of the name given, applied to the arguments a.
call(method, a) ==
    CASE method = "enter" -> enter(a[1], a[2], a[3], a[4], a[5], a[6])
      [] method = "create_table" -> create_table(a[1], a[2], a[3])
      [] method = "get_or_create_table_at_path" -> get_or_create_table_at_path(a[1], a[2])
      [] method = "get_or_create_array_append_table" -> get_or_create_array_append_table(a[1], a[2])
      [] method = "array_append_at" -> array_append_at(a[1], a[2], a[3])
      [] method = "set_value_at_path" -> set_value_at_path(a[1], a[2], a[3], a[4])
      [] method = "parse_unicode_escape" -> parse_unicode_escape(a[1], a[2])
      [] method = "parse_escape_sequence" -> parse_escape_sequence(a[1])
      [] method = "parse_basic_string" -> parse_basic_string(a[1])
      [] method = "parse_literal_string" -> parse_literal_string(a[1])
      [] method = "parse_multiline_basic_string" -> parse_multiline_basic_string(a[1])
      [] method = "parse_multiline_literal_string" -> parse_multiline_literal_string(a[1])
      [] method = "parse_quoted" -> parse_quoted(a[1], a[2])
      [] method = "parse_key" -> parse_key(a[1])
      [] method = "parse_dotted_key" -> parse_dotted_key(a[1])
      [] method = "stoll" -> stoll(a[1], a[2])
      [] method = "stod" -> stod(a[1])
      [] method = "parse_int" -> parse_int(a[1], a[2], a[3])
      [] method = "clock_fields" -> clock_fields(a[1], a[2], a[3], a[4])
      [] method = "offset_field" -> offset_field(a[1])
      [] method = "datetime_time" -> datetime_time(a[1], a[2], a[3], a[4], a[5], a[6])
      [] method = "datetime_after_date" -> datetime_after_date(a[1], a[2], a[3], a[4], a[5], a[6])
      [] method = "datetime_date" -> datetime_date(a[1], a[2])
      [] method = "datetime_time_only" -> datetime_time_only(a[1], a[2])
      [] method = "try_parse_datetime" -> try_parse_datetime(a[1])
      [] method = "parse_boolean" -> parse_boolean(a[1])
      [] method = "special_at" -> special_at(a[1], a[2])
      [] method = "prefixed_integer" -> prefixed_integer(a[1], a[2], a[3])
      [] method = "decimal_number" -> decimal_number(a[1], a[2])
      [] method = "number" -> number(a[1], a[2])
      [] method = "number_or_datetime" -> number_or_datetime(a[1], a[2])
      [] method = "array_gap" -> array_gap(a[1])
      [] method = "parse_array" -> parse_array(a[1])
      [] method = "parse_inline_table" -> parse_inline_table(a[1])
      [] method = "parse_value" -> parse_value(a[1])
      [] method = "tm_to_time_t_utc" -> tm_to_time_t_utc(a[1], a[2], a[3], a[4], a[5], a[6])
      [] method = "time_t_negative" -> time_t_negative(a[1], a[2], a[3], a[4], a[5], a[6])
      [] method = "max_day_in_month" -> max_day_in_month(a[1], a[2])
      [] method = "table_at_path_from" -> table_at_path_from(a[1], a[2], a[3], a[4])
      [] method = "array_prefix_from" -> array_prefix_from(a[1], a[2], a[3], a[4])
      [] method = "set_value_from" -> set_value_from(a[1], a[2], a[3], a[4], a[5])
      [] method = "unicode_digits" -> unicode_digits(a[1], a[2], a[3], a[4])
      [] method = "basic_string_loop" -> basic_string_loop(a[1], a[2])
      [] method = "literal_string_loop" -> literal_string_loop(a[1], a[2])
      [] method = "quote_run" -> quote_run(a[1], a[2], a[3])
      [] method = "multiline_loop" -> multiline_loop(a[1], a[2], a[3], a[4])
      [] method = "bare_key_loop" -> bare_key_loop(a[1], a[2])
      [] method = "dotted_key_loop" -> dotted_key_loop(a[1], a[2])
      [] method = "parse_int_loop" -> parse_int_loop(a[1], a[2], a[3], a[4])
      [] method = "prefixed_loop" -> prefixed_loop(a[1], a[2], a[3])
      [] method = "number_loop" -> number_loop(a[1], a[2], a[3])
      [] method = "array_loop" -> array_loop(a[1], a[2])
      [] method = "inline_table_loop" -> inline_table_loop(a[1], a[2])
      [] method = "expect_chars" -> expect_chars(a[1], a[2])
      [] method = "digit_run" -> digit_run(a[1], a[2], a[3], a[4])
      [] method = "days_from_1970" -> days_from_1970(a[1], a[2], a[3])
      [] method = "lexeme" -> lexeme(a[1], a[2], a[3], a[4])
      [] method = "bad_datetime" -> bad_datetime(a[1], a[2], a[3])
      [] method = "not_datetime" -> not_datetime(a[1], a[2])
      [] method = "garbage_at" -> garbage_at(a[1])
      [] method = "expect_char" -> expect_char(a[1], a[2])
      [] method = "skip_comment" -> skip_comment(a[1])
      [] method = "lookahead" -> lookahead(a[1], a[2])
      [] method = "parse_key_value_pair" -> parse_key_value_pair(a[1], a[2])
      [] method = "header" -> header(a[1])
      [] method = "header_branch" -> header_branch(a[1])
      [] method = "key_value_branch" -> key_value_branch(a[1])

\* The fields of the object after a step.
Store(p) ==
    /\ current_' = p.current_
    /\ error_message_' = p.error_message_
    /\ heap' = p.heap
    /\ root_table_' = p.root_table_
    /\ current_table_' = p.current_table_
    /\ array_of_tables_paths_' = p.array_of_tables_paths_
    /\ uncaught' = p.uncaught
    /\ hist' = p.hist

\* The end of an iteration of  while (!eof())  that goes round again, unless an
\* exception left it or it consumed nothing.
Continue(p) ==
    IF thrown(p) THEN Store(p) /\ pc' = "thrown"
    ELSE IF p.hist.stalled \/ p.current_ = current_ THEN Store(stall(p)) /\ pc' = "hung"
    ELSE Store(p) /\ pc' = "doc"

\* The end of an iteration that may return from parse_document.
Finish(step) ==
    IF step.returns THEN Store(step.p) /\ pc' = "ret"
    ELSE Continue(step.p)

\* The state at  if (peek() == '#')  of an iteration of the loop.
Iteration == skip_whitespace(Self)

\* while (!eof()) { skip_whitespace(); if (eof()) break;
Leaves == eof(Self) \/ eof(Iteration)

\* The byte after  advance(); skip_whitespace();  of a header is another '['.
DoubleBracket == peek(skip_whitespace(advance(Iteration))) = C.lbracket

\* The mutant of clear: the set of array-of-tables paths is kept.
clear_error_only(p) ==
    [p EXCEPT !.error_message_ = NoMsg,
              !.hist = [NoHist EXCEPT !.calls = p.hist.calls]]

\* error_message_.clear(); array_of_tables_paths_.clear();
\* The history starts again, but for the calls of parse() already made.
clear(p) ==
    [p EXCEPT !.error_message_ = NoMsg,
              !.array_of_tables_paths_ = {},
              !.hist = [NoHist EXCEPT !.calls = p.hist.calls]]

\* std::shared_ptr<Table> TomlParser::parse(const std::string& input), from its
\* call to the first test of the loop of parse_document, or to its return on a
\* control character.
parse ==
    /\ pc = "idle"
    /\ LET cleared == clear(Self)
       IN IF prescan_fails(input)
          THEN /\ Store(noted(set_error(cleared, ControlCharMsg), "prescan", <<>>, 0))
               /\ result' = 0
               /\ pc' = "done"
          ELSE LET p1 == make_shared(move(cleared, 0), Table(<<>>))
                   p2 == [p1 EXCEPT !.root_table_ = newest(p1),
                                    !.current_table_ = newest(p1)]
               IN /\ Store(noted(skip_whitespace(p2), "call", <<>>, 0))
                  /\ pc' = "doc"
                  /\ UNCHANGED result
    /\ UNCHANGED <<input, ctype_neg>>

\* if (peek() == '#') { skip_comment(); continue; }
DocComment ==
    /\ pc = "doc" /\ ~Leaves
    /\ peek(Iteration) = C.hash
    /\ Continue(noted(call("skip_comment", <<Iteration>>), "comment", <<>>, current_table_))
    /\ UNCHANGED <<input, ctype_neg, result>>

\* if (peek() == '[') { ... current_table_ = get_or_create_table_at_path(path);
\*                      if (!current_table_) return; continue; }
DocHeader ==
    /\ pc = "doc" /\ ~Leaves
    /\ peek(Iteration) = C.lbracket /\ ~DoubleBracket
    /\ Finish(call("header_branch", <<Iteration>>))
    /\ UNCHANGED <<input, ctype_neg, result>>

\* if (peek() == '[') { ... current_table_ = get_or_create_array_append_table(path);
\*                      if (!current_table_) return; continue; }
DocArrayHeader ==
    /\ pc = "doc" /\ ~Leaves
    /\ peek(Iteration) = C.lbracket /\ DoubleBracket
    /\ Finish(call("header_branch", <<Iteration>>))
    /\ UNCHANGED <<input, ctype_neg, result>>

\* parse_key_value_pair(current_table_); skip_whitespace();
\* if (!eof() && peek() != '#' && peek() != '[') skip_whitespace();
DocKeyValue ==
    /\ pc = "doc" /\ ~Leaves
    /\ peek(Iteration) \notin {C.hash, C.lbracket}
    /\ Continue(call("key_value_branch", <<Iteration>>))
    /\ UNCHANGED <<input, ctype_neg, result>>

\* The loop of parse_document ends at the end of the input.
DocEnd ==
    /\ pc = "doc" /\ Leaves
    /\ Store(noted(IF eof(Self) THEN Self ELSE Iteration, "end", <<>>, current_table_))
    /\ pc' = "ret"
    /\ UNCHANGED <<input, ctype_neg, result>>

\* catch (const std::exception& e) { set_error(e.what()); return nullptr; }
Catch ==
    /\ pc = "thrown"
    /\ Store(set_error([Self EXCEPT !.uncaught = NoMsg], uncaught))
    /\ result' = 0
    /\ pc' = "done"
    /\ UNCHANGED <<input, ctype_neg>>

\* if (has_error()) { return nullptr; } return root_table_;
Return ==
    /\ pc = "ret"
    /\ result' = IF has_error(Self) THEN 0 ELSE root_table_
    /\ pc' = "done"
    /\ UNCHANGED <<input, ctype_neg, current_, error_message_, heap, root_table_,
                   current_table_, array_of_tables_paths_, uncaught, hist>>

Next == parse \/ DocComment \/ DocHeader \/ DocArrayHeader \/ DocKeyValue \/ DocEnd
        \/ Catch \/ Return

-----------------------------------------------------------------------------
(* The inputs parse() is called with *)

\* The longest input over an alphabet.
MaxLen == 3

\* The most lines of a document made of Lines.
MaxLines == 4

\* Every string over an alphabet of at most n bytes.
Strings(alphabet, n) == UNION {[1..k -> alphabet] : k \in 0..n}

\* Every prefix of a string: the input cut short at any byte.
Prefixes(str) == {SubSeq(str, 1, k) : k \in 0..Len(str)}

\* The bytes of the pre-scan: the control characters at and around its
\* boundaries, with a key, '=' and a byte above 0x7F.
ControlBytes == {C.nul, C.tab, C.lf, C.cr, C.us, C.sp, C.del, C.hi, C.a, C.eq}

\* The bytes of the structure of a document.
StructureBytes == {C.a, C.eq, C.d1, C.lbracket, C.rbracket, C.lbrace, C.rbrace,
                   C.comma, C.dot, C.hash, C.lf}

\* Documents with a value of every kind, each read whole and cut short.
Examples ==
    { <<97, 61, 34, 34, 34, 98, 34, 34, 34>>,    \* a="""b"""
      <<97, 61, 39, 39, 39, 98, 39, 39, 39>>,    \* a='''b'''
      <<97, 61, 34, 92, 117, 48, 48, 52, 49, 34>>,    \* a="\u0041"
      <<97, 61, 39, 98, 39>>,    \* a='b'
      <<97, 61, 34, 98, 92>>,    \* a="b\
      <<97, 61, 49, 57, 55, 57, 45, 48, 53, 45, 50, 55, 84, 48, 55, 58, 51, 50, 58, 48, 48, 46, 53, 90>>,    \* a=1979-05-27T07:32:00.5Z
      <<97, 61, 49, 57, 55, 57, 45, 48, 53, 45, 50, 55, 32, 48, 55, 58, 51, 50, 58, 48, 48, 45, 48, 55, 58, 48, 48>>,    \* a=1979-05-27 07:32:00-07:00
      <<97, 61, 48, 55, 58, 51, 50, 58, 48, 48, 46, 50, 53>>,    \* a=07:32:00.25
      <<97, 61, 49, 57, 55, 57, 45, 48, 53, 45, 50, 55>>,    \* a=1979-05-27
      <<97, 61, 43, 105, 110, 102>>,    \* a=+inf
      <<97, 61, 45, 110, 97, 110>>,    \* a=-nan
      <<97, 61, 105, 110, 102>>,    \* a=inf
      <<97, 61, 110, 97, 110>>,    \* a=nan
      <<97, 61, 48, 120, 49, 70>>,    \* a=0x1F
      <<97, 61, 45, 48, 111, 49, 55>>,    \* a=-0o17
      <<97, 61, 48, 98, 49, 49>>,    \* a=0b11
      <<97, 61, 48, 49>>,    \* a=01
      <<97, 61, 49, 46, 53, 101, 51>>,    \* a=1.5e3
      <<97, 61, 49, 95, 48>>,    \* a=1_0
      <<97, 61, 46, 53>>,    \* a=.5
      <<97, 61, 49, 46, 46, 50>>,    \* a=1..2
      <<97, 61, 53, 46>>,    \* a=5.
      <<97, 61, 116, 114, 117, 101>>,    \* a=true
      <<97, 61, 102, 97, 108, 115, 101>>,    \* a=false
      <<97, 61, 91, 49, 44, 91, 50, 93, 44, 123, 98, 61, 51, 125, 93>>,    \* a=[1,[2],{b=3}]
      <<97, 61, 123, 98, 61, 49, 44, 99, 46, 100, 61, 50, 125>>,    \* a={b=1,c.d=2}
      <<97, 61, 123, 98, 61, 49, 44, 98, 61, 50, 125>>,    \* a={b=1,b=2}
      <<97, 61, 57, 50, 50, 51, 51, 55, 50, 48, 51, 54, 56, 53, 52, 55, 55, 53, 56, 48, 56>>,    \* a=9223372036854775808
      <<35, 32, 99, 13, 10, 91, 97, 93, 32, 35, 32, 100, 10, 34, 98, 32, 99, 34, 46, 100, 61, 49>>,    \* # c\r\n[a] # d\n"b c".d=1
      <<97, 61, 255>>,    \* a=\xff
      <<97, 61, 49, 255>> }    \* a=1\xff

\* t=1979-05-27T00:00:00.0...01 with 308 digits of fraction, too small a fraction
\* for a double.
Underflow == <<116, 61, 49, 57, 55, 57, 45, 48, 53, 45, 50, 55, 84,
               48, 48, 58, 48, 48, 58, 48, 48, 46>> \o repeat(C.d0, 307) \o <<C.d1>>

\* The lines of the documents of headers and assignments.
Lines ==
    { <<91, 97, 93, 10>>,    \* [a]\n
      <<91, 97, 46, 98, 93, 10>>,    \* [a.b]\n
      <<91, 91, 97, 93, 93, 10>>,    \* [[a]]\n
      <<91, 91, 97, 46, 98, 93, 93, 10>>,    \* [[a.b]]\n
      <<97, 61, 49, 10>>,    \* a=1\n
      <<97, 61, 50, 10>>,    \* a=2\n
      <<97, 46, 98, 61, 49, 10>>,    \* a.b=1\n
      <<98, 61, 91, 93, 10>> }    \* b=[]\n

\* The lines of a document, one after the other.
RECURSIVE Concat(_)
Concat(ls) == IF ls = <<>> THEN <<>> ELSE Head(ls) \o Concat(Tail(ls))

\* The documents of at most MaxLines lines.
Documents == {Concat(ls) : ls \in Strings(Lines, MaxLines)}

\* A document of five lines: a second element of the array a is given a static
\* array b after the first was given an array of tables b.
\*   [[a]]\n[[a.b]]\n[[a]]\nb=[]\n[[a.b]]\n
SecondElement ==
    Concat(<< <<91, 91, 97, 93, 93, 10>>, <<91, 91, 97, 46, 98, 93, 93, 10>>,
              <<91, 91, 97, 93, 93, 10>>, <<98, 61, 91, 93, 10>>,
              <<91, 91, 97, 46, 98, 93, 93, 10>> >>)

\* A dotted key makes the tables a and a.b, a header selects a.b and a key is
\* assigned in it.
\*   a.b.c=1\n[a.b]\nd=2\n
DottedThenHeader ==
    Concat(<< <<97, 46, 98, 46, 99, 61, 49, 10>>, <<91, 97, 46, 98, 93, 10>>,
              <<100, 61, 50, 10>> >>)

\* Documents that bind the key a to a table and then name it in a header:
\*   [a]\n[a]\n     [a.b]\n[a.b]\n     [a]\nb=[]\n[a]\n
\*   a={}\n[a]\n    a={b=1}\n[a]\n
HeaderTwice ==
    { Concat(<< <<91, 97, 93, 10>>, <<91, 97, 93, 10>> >>),
      Concat(<< <<91, 97, 46, 98, 93, 10>>, <<91, 97, 46, 98, 93, 10>> >>),
      Concat(<< <<91, 97, 93, 10>>, <<98, 61, 91, 93, 10>>, <<91, 97, 93, 10>> >>) }

HeaderAfterInlineTable ==
    { Concat(<< <<97, 61, 123, 125, 10>>, <<91, 97, 93, 10>> >>),
      Concat(<< <<97, 61, 123, 98, 61, 49, 125, 10>>, <<91, 97, 93, 10>> >>) }

\* An inline table whose second key goes through its first, which is no table:
\*   a={b=1,b.c=2}
InlineNonTable == <<97, 61, 123, 98, 61, 49, 44, 98, 46, 99, 61, 50, 125>>

\* The hex digits of the escapes: 0 7 8 C d E F, at the boundaries of the
\* lengths of UTF-8 and of the surrogates, in both cases of letter.
EscapeDigits == {48, 55, 56, 67, 100, 69, 70}

\* The upper four digits of the \U escapes: the planes 0, 1, 15 and 16, the
\* first values above 0x10FFFF and the largest.
EscapePlanes ==
    { <<48, 48, 48, 48>>, <<48, 48, 48, 49>>, <<48, 48, 48, 70>>, <<48, 48, 49, 48>>,
      <<48, 48, 49, 49>>, <<48, 48, 50, 48>>, <<48, 49, 48, 48>>, <<49, 48, 48, 48>>,
      <<70, 70, 70, 70>> }

\* a="\uXXXX"  and  a="\UXXXXXXXX"  with the digits ds.
EscapeInput(ds) ==
    <<97, 61, 34, 92, IF Len(ds) = 4 THEN 117 ELSE 85>> \o ds \o <<34>>

EscapeInputs ==
    {EscapeInput(ds) : ds \in [1..4 -> EscapeDigits]}
    \cup {EscapeInput(hi \o lo) : hi \in EscapePlanes, lo \in [1..4 -> {48, 56, 100, 70}]}

\* a=0x..., a=0o... and a=0b... with at most MaxLen digits 0, 1 and underscores
\* after the prefix.
PrefixedInput(letter, ds) == <<97, 61, 48, letter>> \o ds

PrefixedInputs ==
    {PrefixedInput(letter, ds) : letter \in {C.x, C.o, C.b},
                                 ds \in Strings({C.d0, C.d1, C.underscore}, MaxLen)}

\* The longest run of quotes that closes a multiline string.
MaxQuotes == 5

\* What follows the closing quotes of a value of a key: nothing, a line feed,
\* CR LF, a space, a comment; and of an element of an array: the bracket, a
\* comma, a space.
AfterValue == {<<>>, <<10>>, <<13, 10>>, <<32>>, <<35, 99>>, <<32, 35, 99>>}

AfterElement == {<<93>>, <<44, 93>>, <<32, 93>>, <<10, 93>>}

\* a="""b"..."  and  a=["""b"..."]  with n closing quotes, and the same with
\* single quotes.
MultilineInput(quote, n, after) ==
    <<97, 61>> \o repeat(quote, 3) \o <<98>> \o repeat(quote, n) \o after

MultilineElement(quote, n, after) ==
    <<97, 61, 91>> \o repeat(quote, 3) \o <<98>> \o repeat(quote, n) \o after

MultilineInputs ==
    {MultilineInput(quote, n, after) :
         quote \in {C.dq, C.sq}, n \in 3..MaxQuotes, after \in AfterValue}
    \cup {MultilineElement(quote, n, after) :
         quote \in {C.dq, C.sq}, n \in 3..MaxQuotes, after \in AfterElement}

\* A number below 100 and one below 10000 as two and four decimal digits.
TwoDigits(n) == <<48 + (n \div 10), 48 + (n % 10)>>

FourDigits(n) == TwoDigits(n \div 100) \o TwoDigits(n % 100)

\* The years of the dates: leap years, years that are not, a century that is
\* not a leap year and one that is, before and after the epoch.
Years == {1900, 1970, 2000, 2023, 2024, 2100}

\* The months and the days of the dates: every value from 00 to past the last.
Months == 0..13

Days == 0..32

\* The hours, minutes and seconds of the times: the limits of each field.
ClockValues == {0, 23, 24, 59, 60, 61, 99}

\* a=YYYY-MM-DD
DateInput(year, month, day) ==
    <<97, 61>> \o FourDigits(year) \o <<45>> \o TwoDigits(month) \o <<45>> \o TwoDigits(day)

\* a=HH:MM:SS  and  a=2024-02-29THH:MM:SS
TimeInput(hour, minute, second) ==
    <<97, 61>> \o TwoDigits(hour) \o <<58>> \o TwoDigits(minute) \o <<58>> \o TwoDigits(second)

DateTimeInput(hour, minute, second) ==
    DateInput(2024, 2, 29) \o <<84>> \o TwoDigits(hour) \o <<58>> \o TwoDigits(minute)
                           \o <<58>> \o TwoDigits(second)

DateInputs == {DateInput(year, month, day) : year \in Years, month \in Months, day \in Days}

TimeInputs == {TimeInput(h, m, s) : h \in ClockValues, m \in ClockValues, s \in ClockValues}

DateTimeInputs ==
    {DateTimeInput(h, m, s) : h \in ClockValues, m \in ClockValues, s \in ClockValues}

\* The years of the offset date-times: the first and the last that are kept as an
\* instant, and leap years and others between them.
OffsetYears == {1970, 1979, 2000, 2024, 2037}

\* Their months and days: the ends of the year, around the end of February, and
\* the 27th of May.
OffsetDates == {<<1, 1>>, <<2, 28>>, <<3, 1>>, <<5, 27>>, <<12, 31>>}

\* Their times: midnight, 07:32:00 and a leap second.
OffsetTimes == {<<0, 0, 0>>, <<7, 32, 0>>, <<23, 59, 60>>}

\* Their offsets: Z, z, and a sign with hours and minutes, up to the largest and
\* just past it.
Offsets ==
    { <<90>>, <<122>> }
    \cup {<<sign>> \o TwoDigits(hm[1]) \o <<58>> \o TwoDigits(hm[2]) :
              sign \in {43, 45},
              hm \in {<<0, 0>>, <<8, 0>>, <<5, 30>>, <<23, 59>>, <<24, 0>>, <<0, 60>>}}

\* a=YYYY-MM-DDTHH:MM:SS followed by an offset, the separator sep being T, t or a
\* space.
OffsetInput(year, md, sep, hms, offset) ==
    DateInput(year, md[1], md[2]) \o <<sep>> \o TwoDigits(hms[1]) \o <<58>>
        \o TwoDigits(hms[2]) \o <<58>> \o TwoDigits(hms[3]) \o offset

OffsetInputs ==
    {OffsetInput(year, md, 84, hms, offset) :
         year \in OffsetYears, md \in OffsetDates, hms \in OffsetTimes, offset \in Offsets}
    \cup {OffsetInput(1979, <<5, 27>>, sep, <<7, 32, 0>>, offset) :
              sep \in {32, 116}, offset \in Offsets}

\* A date, a local date-time, two offset date-times, one of a year that is kept
\* as its lexeme, and a local time, each of the year-month-day 1979-05-27 or
\* 2038-01-01 and of the time 07:32:00.
DateTimeLexemes ==
    { SubSeq(DateInput(1979, 5, 27), 3, 12),
      SubSeq(OffsetInput(1979, <<5, 27>>, 84, <<7, 32, 0>>, <<>>), 3, 21),
      SubSeq(OffsetInput(1979, <<5, 27>>, 84, <<7, 32, 0>>, <<90>>), 3, 22),
      SubSeq(OffsetInput(1979, <<5, 27>>, 84, <<7, 32, 0>>, <<45, 48, 56, 58, 48, 48>>), 3, 27),
      SubSeq(OffsetInput(2038, <<1, 1>>, 84, <<7, 32, 0>>, <<90>>), 3, 22),
      SubSeq(TimeInput(7, 32, 0), 3, 10) }

\* What follows them: nothing, each value terminator, a letter, a letter and
\* more, another key-value pair, a T, a T and a line feed.
Trailers ==
    { <<>>, <<32>>, <<9>>, <<10>>, <<13, 10>>, <<44>>, <<93>>, <<125>>, <<35>>,
      <<120>>, <<120, 10>>, <<98, 61, 49>>, <<84>>, <<84, 10>>, <<116>>, <<95>>, <<46>> }

\* a= followed by a date or time and by what follows it.
TrailingInput(written, trailer) == <<97, 61>> \o written \o trailer

TrailingInputs ==
    {TrailingInput(written, trailer) : written \in DateTimeLexemes, trailer \in Trailers}

\* The fractions of a second: a dot alone, and a dot with one and three digits.
Fractions == {<<46>>, <<46, 53>>, <<46, 49, 50, 51>>}

\* What carries seconds: a local time, a local date-time and an offset date-time
\* (the seconds are the last two bytes of each), and the offset that follows the
\* fraction of the last.
SecondsShapes ==
    { [written |-> SubSeq(TimeInput(7, 32, 0), 3, 10), offset |-> <<>>],
      [written |-> SubSeq(OffsetInput(1979, <<5, 27>>, 84, <<7, 32, 0>>, <<>>), 3, 21),
       offset |-> <<>>],
      [written |-> SubSeq(OffsetInput(1979, <<5, 27>>, 84, <<7, 32, 0>>, <<>>), 3, 21),
       offset |-> <<90>>],
      [written |-> SubSeq(OffsetInput(1979, <<5, 27>>, 32, <<7, 32, 0>>, <<>>), 3, 21),
       offset |-> <<43, 48, 49, 58, 48, 48>>] }

\* a= followed by the seconds, the fraction, the offset and what ends the value.
FractionInput(shape, fraction, after) ==
    <<97, 61>> \o shape.written \o fraction \o shape.offset \o after

FractionInputs ==
    {FractionInput(shape, fraction, after) :
         shape \in SecondsShapes, fraction \in Fractions, after \in {<<>>, <<10>>, <<32, 35, 99>>}}

\* The most elements of an array.
MaxElements == 3

\* What stands between the elements of an array and its delimiters: nothing, a
\* space, a line feed, a comment and its line feed, two comments.
Gaps == {<<>>, <<32>>, <<10>>, <<35, 99, 10>>, <<32, 35, 99, 10, 32, 35, 100, 10>>}

\* The elements i..n of an array, each the digit of its index between the two
\* gaps and followed by a comma, the last one only if the comma is trailing.
RECURSIVE ArrayElements(_, _, _, _, _)
ArrayElements(i, n, before, after, trailing) ==
    IF i > n THEN <<>>
    ELSE before \o <<48 + i>> \o after \o (IF i < n \/ trailing THEN <<44>> ELSE <<>>)
         \o ArrayElements(i + 1, n, before, after, trailing)

\* a=[1,2,...,n]  with the gaps, and with or without a trailing comma.
ArrayInput(n, before, after, trailing) ==
    <<97, 61, 91>> \o ArrayElements(1, n, before, after, trailing) \o before \o <<93>>

ArrayInputs ==
    {ArrayInput(n, before, after, trailing) :
         n \in 1..MaxElements, before \in Gaps, after \in Gaps, trailing \in BOOLEAN}

\* a=01, a=+01, a=-01 and their like: an optional sign, a zero, one or two more
\* digits, and nothing or a fraction after them.
LeadingZeroInput(sign, ds, fraction) == <<97, 61>> \o sign \o <<48>> \o ds \o fraction

LeadingZeroInputs ==
    {LeadingZeroInput(sign, ds, fraction) :
         sign \in {<<>>, <<43>>, <<45>>},
         ds \in Strings({C.d0, C.d1, C.d9}, 2) \ {<<>>},
         fraction \in {<<>>, <<46, 53>>}}

\* The length of what follows the first digit of a decimal token.
MaxTail == 3

\* a= followed by a decimal token: an optional sign, the digit 1, and up to
\* MaxTail bytes that the loop of parse_value consumes (a digit, the signs, the
\* underscore, the dot, e).
DecimalInput(sign, tail) == <<97, 61>> \o sign \o <<49>> \o tail

DecimalInputs ==
    {DecimalInput(sign, tail) :
         sign \in {<<>>, <<43>>, <<45>>},
         tail \in Strings({C.d2, C.plus, C.minus, C.underscore, C.dot, C.e}, MaxTail)}

\* a=2024-1-01 and a=2024-1-01\n: a token with the tail of a date that is not one.
DateLikeInputs == { <<97, 61, 50, 48, 50, 52, 45, 49, 45, 48, 49>>,
                    <<97, 61, 50, 48, 50, 52, 45, 49, 45, 48, 49, 10>> }

\* The inputs of SpecValue: one value each, with the documents that take every
\* branch of the loop of parse_document.
ValueInputs == EscapeInputs \cup PrefixedInputs \cup MultilineInputs
               \cup DateInputs \cup TimeInputs \cup DateTimeInputs \cup OffsetInputs
               \cup TrailingInputs \cup ArrayInputs \cup LeadingZeroInputs
               \cup FractionInputs \cup DecimalInputs \cup DateLikeInputs
               \cup Examples \cup {Underflow, SecondElement}

\* The inputs of Spec: short strings and truncated documents.
Inputs == Strings(ControlBytes, MaxLen) \cup Strings(StructureBytes, MaxLen + 1)
          \cup UNION {Prefixes(doc) : doc \in Examples} \cup {Underflow}

\* The inputs of SpecDoc: documents of headers and assignments.
DocInputs == Documents \cup Examples \cup {Underflow, SecondElement, DottedThenHeader}
             \cup HeaderTwice \cup HeaderAfterInlineTable \cup {InlineNonTable}

\* A TomlParser just constructed, and the string its parse() will be given.
InitWith(inputs) ==
    /\ input \in inputs
    /\ ctype_neg \in IF \E k \in DOMAIN input : Negative(input[k]) THEN BOOLEAN ELSE {FALSE}
    /\ current_ = 0
    /\ error_message_ = NoMsg
    /\ heap = <<Table(<<>>)>>
    /\ root_table_ = 1
    /\ current_table_ = 1
    /\ array_of_tables_paths_ = {}
    /\ pc = "idle"
    /\ result = 0
    /\ uncaught = NoMsg
    /\ hist = NoHist

Init == InitWith(Inputs)

InitDoc == InitWith(DocInputs)

Spec == Init /\ [][Next]_vars

SpecDoc == InitDoc /\ [][Next]_vars

InitValue == InitWith(ValueInputs)

SpecValue == InitValue /\ [][Next]_vars

-----------------------------------------------------------------------------
(* parse() called again on the same TomlParser *)

\* The most calls of parse() on one TomlParser.
MaxCalls == 3

\* The strings of the calls: the empty string, an assignment, an assignment
\* through a key that is no table, an array of tables, a static array named by
\* a [[header]], a comment and a header, a control character, and a fraction
\* that makes std::stod throw.
\*   a=1\n     a=1\na.b=1\n     [[a.b]]\n     [a]\nb=[]\n[[a.b]]\n     # c\n[a]\nb=[]\n
AgainInputs ==
    { <<>>,
      <<97, 61, 49, 10>>,
      Concat(<< <<97, 61, 49, 10>>, <<97, 46, 98, 61, 49, 10>> >>),
      <<91, 91, 97, 46, 98, 93, 93, 10>>,
      Concat(<< <<91, 97, 93, 10>>, <<98, 61, 91, 93, 10>>, <<91, 91, 97, 46, 98, 93, 93, 10>> >>),
      Concat(<< <<35, 32, 99, 10>>, <<91, 97, 93, 10>>, <<98, 61, 91, 93, 10>> >>),
      <<97, 61, 0>>,
      Underflow }

\* A TomlValue with the tables and arrays it points to in place of the pointers.
RECURSIVE Pointee(_)
Pointee(v) ==
    IF holds_alternative(v, "TablePtr")
    THEN Val("Table", [key \in DOMAIN heap[get(v)].values |-> Pointee(heap[get(v)].values[key])])
    ELSE IF holds_alternative(v, "ArrayPtr")
    THEN Val("Array", [k \in DOMAIN heap[get(v)].elements |-> Pointee(heap[get(v)].elements[k])])
    ELSE v

\* What the caller has of a call of parse() that returned: the string it gave,
\* the pointer it got back (0 = nullptr), the tree behind the pointer, and
\* get_error().
Outcome ==
    [input |-> input, result |-> result,
     tree |-> IF result = 0 THEN Val("nullptr", <<>>) ELSE Pointee(TablePtr(result)),
     error |-> error_message_]

\* The caller calls parse() again, with any of the strings; the tree of the call
\* before stays with the caller, so the heap keeps its objects.
ParseAgain ==
    /\ pc = "done" /\ Len(hist.calls) + 1 < MaxCalls
    /\ \E str \in AgainInputs : input' = str
    /\ pc' = "idle"
    /\ hist' = [hist EXCEPT !.calls = Append(@, Outcome)]
    /\ UNCHANGED <<current_, error_message_, heap, root_table_, current_table_,
                   array_of_tables_paths_, result, uncaught, ctype_neg>>

InitAgain == InitWith(AgainInputs)

NextAgain == Next \/ ParseAgain

SpecAgain == InitAgain /\ [][NextAgain]_vars

-----------------------------------------------------------------------------
(* The functions of simd_utils, called on their own *)

\* The longest run of whitespace of a buffer: two chunks and more.
MaxRun == 66

\* The k-th byte of a run of whitespace: space, tab and CR in turn.
RunByte(k) == <<C.sp, C.tab, C.cr>>[(k % 3) + 1]

\* A buffer: a run of k bytes of whitespace, a byte that is a line feed or a
\* letter, and a run of j more.
SimdBuffer(k, stop, j) ==
    [i \in 1..k |-> RunByte(i)] \o <<stop>> \o [i \in 1..j |-> RunByte(i + 1)]

SimdBuffers ==
    {SimdBuffer(k, stop, j) : k \in 0..MaxRun, stop \in {C.lf, C.a}, j \in {0, 5, 31, 40}}

\* The positions a call starts from.
SimdStarts == {0, 1, 2, 31, 33}

\* The bytes find_char_simd is asked for.
SimdTargets == {C.lf, C.a, C.sp, C.hash}

\* A buffer and a pointer into it, before a function of simd_utils is called.
InitSimd ==
    /\ input \in SimdBuffers
    /\ current_ \in {s \in SimdStarts : s <= Len(input)}
    /\ ctype_neg = FALSE
    /\ error_message_ = NoMsg
    /\ heap = <<Table(<<>>)>>
    /\ root_table_ = 1
    /\ current_table_ = 1
    /\ array_of_tables_paths_ = {}
    /\ pc = "simd"
    /\ result = 0
    /\ uncaught = NoMsg
    /\ hist = NoHist

\* A call of a function of simd_utils with (current_, end_): what the AVX2
\* build returns and what the scalar build returns are kept side by side.
SimdCall(method, ch, avx2, scalar) ==
    /\ pc = "simd"
    /\ pc' = "simd_done"
    /\ hist' = [method |-> method, ch |-> ch, avx2 |-> avx2, scalar |-> scalar]
    /\ UNCHANGED <<input, ctype_neg, current_, error_message_, heap, root_table_,
                   current_table_, array_of_tables_paths_, result, uncaught>>

\* simd_utils::skip_whitespace(current_, end_)
CallSkipWhitespace ==
    SimdCall("skip_whitespace", C.nul, avx2_skip_whitespace(current_),
             simd_skip_whitespace(current_))

\* simd_utils::skip_whitespace_no_nl(current_, end_)
CallSkipWhitespaceNoNl ==
    SimdCall("skip_whitespace_no_nl", C.nul, avx2_skip_whitespace_no_nl(current_),
             simd_skip_whitespace_no_nl(current_))

\* simd_utils::find_char_simd(current_, end_, c)
CallFindChar ==
    \E ch \in SimdTargets :
        SimdCall("find_char_simd", ch, avx2_find_char(current_, ch),
                 simd_find_char(current_, ch))

NextSimd == CallSkipWhitespace \/ CallSkipWhitespaceNoNl \/ CallFindChar

SpecSimd == InitSimd /\ [][NextSimd]_vars


-----------------------------------------------------------------------------
(* The properties *)

\* C1: parse(input) returns a non-null root table exactly when no error was
\* recorded during the call: a null result comes with a non-empty message, and
\* a table comes with none.
C1_ResultIffNoError ==
    pc = "done" =>
        /\ (result # 0) <=> (error_message_ = NoMsg)
        /\ result = 0 => error_message_.text # ""
        /\ result # 0 => result = root_table_ /\ heap[result].kind = "Table"

\* parse() went through the whole document, recorded an error in it and
\* returned null.
C1_Witness ==
    /\ pc = "done" /\ result = 0
    /\ hist.last_op.kind = "end" /\ error_message_ # NoMsg

\* C2: the error message is write-once within a parse call: the message held
\* is the first one recorded, and once one is recorded no step changes it.
C2_FirstErrorKept ==
    /\ [](error_message_ = hist.first_error)
    /\ [][(pc # "idle" /\ error_message_ # NoMsg) => error_message_' = error_message_]_vars

\* Two different errors were recorded in a call and the first is the one held.
C2_Witness ==
    /\ pc = "done" /\ hist.errors >= 2
    /\ hist.last_error # hist.first_error
    /\ error_message_ = hist.first_error

\* A byte the pre-scan forbids: 0x00-0x1F other than tab, LF and a CR
\* immediately followed by LF, or 0x7F.
ForbiddenAt(str, k) ==
    \/ str[k] \in (0..31) \ {9, 10, 13}
    \/ str[k] = 13 /\ (k = Len(str) \/ str[k + 1] # 10)
    \/ str[k] = 127

HasForbidden(str) == \E k \in DOMAIN str : ForbiddenAt(str, k)

\* C3: an input with a forbidden control byte gets the control-character error
\* and a null result before the document driver runs (no byte is consumed, no
\* root table is made); an input without one never gets that error.
C3_ControlCharacters ==
    /\ ~HasForbidden(input) => error_message_ # ControlCharMsg
    /\ (HasForbidden(input) /\ pc # "idle") =>
           /\ pc = "done" /\ result = 0
           /\ error_message_ = ControlCharMsg
           /\ hist.last_op.kind = "prescan"
           /\ current_ = 0 /\ Len(heap) = 1

\* An input whose only forbidden byte is 0x7F was refused by the pre-scan.
C3_Witness ==
    /\ pc = "done" /\ error_message_ = ControlCharMsg
    /\ \E k \in DOMAIN input : input[k] = 127
    /\ \A k \in DOMAIN input : input[k] \notin (0..31)

\* The steps of a call that are left at most: the bytes left to the loop of the
\* document driver, then the return.
Rank ==
    CASE pc = "idle" -> end_ + 3
      [] pc = "doc" -> (end_ - current_) + 2
      [] pc \in {"ret", "thrown"} -> 1
      [] OTHER -> 0

\* C4: parse terminates on every input: no iteration of the loop of the
\* document driver, of parse_array or of parse_inline_table ends where it began
\* without leaving its loop; every iteration of the driver that goes round again
\* has moved the cursor forward; and every step of a call leaves fewer steps
\* to take than there were.
C4_Terminates ==
    /\ [](pc # "hung" /\ ~hist.stalled)
    /\ [][(pc = "doc" /\ pc' = "doc") => current_' > current_]_vars
    /\ [][Rank' < Rank /\ Rank' >= 0]_vars

\* A malformed input (no key can be read where one is expected) was read to its
\* end, error recorded, and parse returned.
C4_Witness ==
    /\ pc = "done" /\ current_ = end_ /\ end_ > 1
    /\ hist.first_error.text = "Expected key"

\* C5: the cursor stays within [begin, end] and no byte outside [begin, end) is
\* read, by peek, advance, a look-ahead or a jump.
C5_CursorInBounds ==
    /\ 0 <= current_ /\ current_ <= end_
    /\ ~hist.oob

\* The input  a=""  stops inside the test for a multi-line string, and the
\* input was read to its end.
C5_Witness ==
    /\ pc = "done" /\ input = <<97, 61, 34, 34>>
    /\ current_ = end_

\* C6 (as stated): a key assigned twice by key = value in one table makes parse
\* fail.  The source sets the key again and returns the table.
C6_DuplicateRejected ==
    (pc = "done" /\ hist.reassigned) => result = 0

\* C7 (as stated): a static array assigned to a path that a [[header]]
\* introduced makes parse fail.  The source replaces the array of tables.
C7_HeaderArrayNotAssigned ==
    (pc = "done" /\ hist.header_array_assigned) => result = 0

\* C8 (as stated): the elements of an array made by key = [...] stay what
\* they were when it was assigned, even when no key was assigned twice.  The
\* source appends a table to it when its dotted path is in the set for an array
\* of another element.
C8_StaticArrayNotExtended ==
    (~hist.reassigned /\ ~hist.header_array_assigned) =>
        \A a \in hist.static_arrays : heap[a[1]].elements = a[2]

\* The first segment of a path, followed from the table t of the heap h, whose
\* key is bound to a value that is neither a table nor an array: its index i
\* (0 if the path meets none) and the table t the key is in.  A header goes
\* through an array of the set aot at its last element; a dotted key does not.
RECURSIVE ScalarSegment(_, _, _, _, _, _)
ScalarSegment(h, aot, t, path, i, by_header) ==
    IF i > Len(path) \/ path[i] \notin DOMAIN h[t].values THEN [i |-> 0, t |-> t]
    ELSE LET v == h[t].values[path[i]] IN
         IF v.type = "TablePtr"
         THEN ScalarSegment(h, aot, v.v[1], path, i + 1, by_header)
         ELSE IF v.type = "ArrayPtr"
         THEN LET elements == h[v.v[1]].elements IN
              IF /\ by_header /\ SubSeq(path, 1, i) \in aot /\ elements # <<>>
                 /\ elements[Len(elements)].type = "TablePtr"
              THEN ScalarSegment(h, aot, elements[Len(elements)].v[1], path, i + 1,
                                 by_header)
              ELSE [i |-> 0, t |-> t]
         ELSE [i |-> i, t |-> t]

\* What C9 says of one step of the driver, s being the scalar segment its path
\* meets in the tables as they are before the step.
C9_Step(op, s) ==
    (/\ pc = "doc" /\ op.kind \in {"key_value", "header", "array_header"}
     /\ uncaught' = NoMsg /\ ~hist'.stalled
     /\ s.i > 0 /\ s.i < Len(op.path))
    => /\ hist'.errors > hist.errors
       /\ hist'.last_error = NonTableMsg(op.path[s.i])
       /\ error_message_' # NoMsg
       /\ (hist.errors = 0 /\ hist'.errors = 1)
              => error_message_' = NonTableMsg(op.path[s.i])
       /\ op.path[s.i] \in DOMAIN heap'[s.t].values
       /\ heap'[s.t].values[op.path[s.i]] = heap[s.t].values[op.path[s.i]]

\* C9: a dotted key, a [header] or a [[header]] that uses as a non-final
\* segment a key bound to a value that is neither a table nor an array records
\* "Key '<k>' already defined as non-table" and leaves the value bound.
C9_ScalarNotExtended ==
    [][C9_Step(hist'.last_op,
               ScalarSegment(heap, array_of_tables_paths_,
                             IF hist'.last_op.kind = "key_value" THEN current_table_
                             ELSE root_table_,
                             hist'.last_op.path, 1,
                             hist'.last_op.kind # "key_value"))]_vars

\* The dotted key  a.b  was read after  a  was bound to an integer: the error is
\* recorded and  a  is still the integer.
C9_Witness ==
    /\ hist.last_op.kind = "key_value" /\ hist.last_op.path = <<<<97>>, <<98>>>>
    /\ hist.last_error = NonTableMsg(<<97>>)
    /\ error_message_ = NonTableMsg(<<97>>)
    /\ <<97>> \in DOMAIN heap[root_table_].values
    /\ heap[root_table_].values[<<97>>].type = "Integer"

\* The tables that [[header]]s made elements of the array arr, in header order.
RECURSIVE TablesOf(_, _)
TablesOf(log, arr) ==
    IF log = <<>> THEN <<>>
    ELSE IF Head(log)[1] = arr
    THEN <<TablePtr(Head(log)[2])>> \o TablesOf(Tail(log), arr)
    ELSE TablesOf(Tail(log), arr)

\* The table the most recent [[header]] made.
NewestHeaderTable == hist.header_tables[Len(hist.header_tables)][2]

\* C10, at every state: an array made by a [[p]] header has p recorded and
\* holds exactly the tables the [[p]] headers made, one each, in header
\* order; the table of the header just read is fresh, empty, the last element
\* of its array and the current table; and the current table stays the table of
\* the most recent header while key-value pairs are read.
C10_State ==
    /\ \A a \in hist.header_arrays :
           /\ a[2] \in array_of_tables_paths_
           /\ heap[a[1]].elements = TablesOf(hist.header_tables, a[1])
    /\ \A i, j \in DOMAIN hist.header_tables :
           i < j => hist.header_tables[i][2] < hist.header_tables[j][2]
    /\ (hist.last_op.kind = "array_header" /\ current_table_ # 0) =>
           /\ hist.header_tables # <<>>
           /\ current_table_ = NewestHeaderTable
           /\ current_table_ = Len(heap)
           /\ heap[current_table_] = Table(<<>>)
           /\ LET elements == heap[hist.header_tables[Len(hist.header_tables)][1]].elements
              IN elements # <<>> /\ elements[Len(elements)] = TablePtr(current_table_)
    /\ (hist.last_header = "array_header" /\ pc = "doc") =>
           current_table_ = NewestHeaderTable

\* C10, at every step that reads a key-value pair after a [[header]] without an
\* error: the first key of its path is bound in the table of that header and
\* no other table that existed is changed.
C10_Step ==
    (/\ pc = "doc" /\ hist.last_header = "array_header"
     /\ hist'.last_op.kind = "key_value" /\ hist'.last_op.ok
     /\ hist'.last_op.path # <<>>
     /\ uncaught' = NoMsg /\ ~hist'.stalled)
    => /\ hist'.last_op.path[1] \in DOMAIN heap'[NewestHeaderTable].values
       /\ Len(hist'.last_op.path) = 1 =>
              \A t \in DOMAIN heap :
                  t # NewestHeaderTable => heap'[t] = heap[t]

\* C10: [[p]] makes an array of one fresh empty table and records p, each later
\* [[p]] appends one fresh empty table, the new table becomes the current
\* table, after k headers the array holds k tables in header order, and
\* key-value pairs are stored in the table of the most recent header.
C10_ArrayOfTables == []C10_State /\ [][C10_Step]_vars

\* Two [[a]] headers made an array of two tables and a key-value pair read after
\* the second is in the second table, the first being still empty.
C10_Witness ==
    /\ hist.last_op.kind = "key_value" /\ hist.last_op.ok
    /\ \E a \in hist.header_arrays :
           /\ Len(heap[a[1]].elements) = 2
           /\ heap[heap[a[1]].elements[1].v[1]].values = <<>>
           /\ heap[heap[a[1]].elements[2].v[1]].values # <<>>
           /\ current_table_ = heap[a[1]].elements[2].v[1]

\* The table a path leads to from the table t of the heap h through keys bound
\* to tables only, from its segment i; 0 if it leads to none.
RECURSIVE TableAt(_, _, _, _)
TableAt(h, t, path, i) ==
    IF i > Len(path) THEN t
    ELSE IF path[i] \notin DOMAIN h[t].values THEN 0
    ELSE IF h[t].values[path[i]].type # "TablePtr" THEN 0
    ELSE TableAt(h, h[t].values[path[i]].v[1], path, i + 1)

\* What C11 says of a [header] step whose path leads to the table t that a
\* dotted key made: the lookup records no error (an error of the step can only
\* be the one of a missing ']'), the header selects t, and no table is changed.
C11_Step(op, t) ==
    (/\ pc = "doc" /\ op.kind = "header" /\ op.path # <<>>
     /\ t # 0 /\ t \in hist.implicit
     /\ uncaught' = NoMsg /\ ~hist'.stalled)
    => /\ hist'.errors > hist.errors => hist'.last_error.text = ExpectedMsg(0, <<>>).text
       /\ current_table_' = t
       /\ heap' = heap
       /\ pc' = "doc"

\* What C11 says of the document  a.b.c=1 [a.b] d=2 : it is accepted, and in the
\* table returned a.b holds both c = 1 and d = 2.
C11_Document ==
    (input = DottedThenHeader /\ pc = "done") =>
        /\ result # 0 /\ error_message_ = NoMsg
        /\ LET ab == TableAt(heap, result, <<<<97>>, <<98>>>>, 1)
           IN /\ ab # 0
              /\ heap[ab].values = (<<99>> :> IntegerOf(FALSE, <<1>>))
                                    @@ (<<100>> :> IntegerOf(FALSE, <<2>>))

\* C11: a table made as an intermediate of a dotted key can be selected by a
\* later [header] of the same path without error; its entries are kept and
\* later key-value pairs are added to it.
C11_ImplicitTableSelected ==
    /\ []C11_Document
    /\ [][C11_Step(hist'.last_op, TableAt(heap, root_table_, hist'.last_op.path, 1))]_vars

\* a.b.c=1 [a.b] d=2  was read to its end: a.b, made by the dotted key, holds
\* the two keys.
C11_Witness ==
    /\ input = DottedThenHeader /\ pc = "done" /\ result # 0
    /\ TableAt(heap, result, <<<<97>>, <<98>>>>, 1) \in hist.implicit
    /\ DOMAIN heap[TableAt(heap, result, <<<<97>>, <<98>>>>, 1)].values = {<<99>>, <<100>>}

\* The value of a hex digit, and of a string of them (at most six, most
\* significant first).
HexValue(ch) == IF ch <= 57 THEN ch - 48 ELSE IF ch <= 70 THEN ch - 55 ELSE ch - 87

RECURSIVE HexNumber(_)
HexNumber(ds) ==
    IF ds = <<>> THEN 0 ELSE HexNumber(SubSeq(ds, 1, Len(ds) - 1)) * 16 + HexValue(ds[Len(ds)])

\* The digits written in an escape are those of a Unicode scalar value: at most
\* 0x10FFFF and not a surrogate.
ScalarValue(ds) ==
    LET low == SubSeq(ds, Len(ds) - 3, Len(ds))
        high == SubSeq(ds, 1, Len(ds) - 4)
    IN /\ \A k \in 1..(Len(high) - 2) : high[k] = 48
       /\ HexNumber(high) <= 16
       /\ HexNumber(high) = 0 => HexNumber(low) \notin 55296..57343

\* The codepoint of a byte sequence of UTF-8: the payload bits of its lead byte
\* followed by the six payload bits of each continuation byte.
RECURSIVE Utf8Payload(_, _)
Utf8Payload(bs, acc) ==
    IF bs = <<>> THEN acc ELSE Utf8Payload(Tail(bs), acc * 64 + (Head(bs) - 128))

\* bs is the UTF-8 encoding of cp: the shortest form for cp, a lead byte that
\* announces its length, continuation bytes 10xxxxxx, and cp as its payload.
IsUtf8Of(bs, cp) ==
    LET n == IF cp < 128 THEN 1 ELSE IF cp < 2048 THEN 2 ELSE IF cp < 65536 THEN 3 ELSE 4
        lead == IF n = 1 THEN 0 ELSE IF n = 2 THEN 192 ELSE IF n = 3 THEN 224 ELSE 240
        room == IF n = 1 THEN 128 ELSE IF n = 2 THEN 32 ELSE IF n = 3 THEN 16 ELSE 8
    IN /\ Len(bs) = n
       /\ bs[1] >= lead /\ bs[1] < lead + room
       /\ \A k \in 2..n : bs[k] \in 128..191
       /\ Utf8Payload(Tail(bs), bs[1] - lead) = cp

\* C12: an escape \uXXXX or \UXXXXXXXX of a basic string whose digits are a
\* scalar value C (at most 0x10FFFF, not a surrogate) decodes to the UTF-8
\* encoding of C of 1, 2, 3 or 4 bytes with no error; for any other value an
\* error is recorded and the bytes EF BF BD are put in the string.
C12_UnicodeEscape ==
    (pc = "done" /\ input \in EscapeInputs) =>
        LET ds == SubSeq(input, 6, Len(input) - 1) IN
        IF ScalarValue(ds)
        THEN /\ result # 0 /\ error_message_ = NoMsg /\ hist.errors = 0
             /\ heap[result].values[<<97>>].type = "String"
             /\ IsUtf8Of(heap[result].values[<<97>>].v,
                         HexNumber(SubSeq(ds, IF Len(ds) = 8 THEN 3 ELSE 1, Len(ds))))
        ELSE /\ result = 0 /\ hist.errors = 1
             /\ error_message_ = Msg("Invalid Unicode codepoint in escape", <<>>)
             /\ heap[root_table_].values[<<97>>] = String(<<239, 191, 189>>)

\* a="\U0010FFFF" was read: the string is the four bytes F4 8F BF BF.
C12_Witness ==
    /\ pc = "done" /\ result # 0
    /\ input = EscapeInput(<<48, 48, 49, 48, 70, 70, 70, 70>>)
    /\ heap[result].values[<<97>>] = String(<<244, 143, 191, 191>>)

\* Every underscore of the digits ds has a digit on both sides.
UnderscoresBetweenDigits(ds) ==
    \A k \in DOMAIN ds :
        ds[k] = C.underscore =>
            /\ k > 1 /\ k < Len(ds)
            /\ ds[k - 1] # C.underscore /\ ds[k + 1] # C.underscore

\* C13 (as stated): in a prefixed integer every underscore must lie between two
\* digits, so 0x_1 and 0x1_ each record an error, while 0x1_0 is the integer 16.
\* The source drops every underscore wherever it stands and accepts both.
C13_PrefixedUnderscore ==
    (pc = "done" /\ input \in PrefixedInputs) =>
        /\ ~UnderscoresBetweenDigits(SubSeq(input, 5, Len(input))) =>
               (result = 0 /\ error_message_ # NoMsg)
        /\ input = PrefixedInput(C.x, <<C.d1, C.underscore, C.d0>>) =>
               /\ result # 0
               /\ heap[result].values[<<97>>] = IntegerOf(FALSE, <<1, 6>>)

\* C14 (as stated): in a multiline basic or literal string a run of 3, 4 or 5
\* quotes closes the string whatever byte follows it, and gives the content 0, 1
\* or 2 quotes.  The source closes on a run of 4 or 5 only before a line ending
\* or the end of the input.
C14_ClosingQuotes ==
    \A quote \in {C.dq, C.sq}, n \in 3..MaxQuotes :
        /\ \A after \in AfterValue :
               (pc = "done" /\ input = MultilineInput(quote, n, after)) =>
                   /\ result # 0 /\ error_message_ = NoMsg
                   /\ heap[result].values[<<97>>] = String(<<98>> \o repeat(quote, n - 3))
        /\ \A after \in AfterElement :
               (pc = "done" /\ input = MultilineElement(quote, n, after)) =>
                   /\ result # 0 /\ error_message_ = NoMsg
                   /\ heap[result].values[<<97>>].type = "ArrayPtr"
                   /\ heap[heap[result].values[<<97>>].v[1]].elements
                          = <<String(<<98>> \o repeat(quote, n - 3))>>

\* The number written as the two digits at i and i + 1 of the input (1-based).
TwoAt(i) == (input[i] - 48) * 10 + (input[i + 1] - 48)

\* The last day of a month of the Gregorian calendar.
LastDay(year, month) ==
    IF month \in {4, 6, 9, 11} THEN 30
    ELSE IF month # 2 THEN 31
    ELSE IF year % 400 = 0 \/ (year % 4 = 0 /\ year % 100 # 0) THEN 29
    ELSE 28

\* The value of the key a is the string of the bytes of the input from i to j.
ValueIsLexeme(i, j) ==
    /\ result # 0 /\ error_message_ = NoMsg
    /\ heap[result].values[<<97>>] = String(SubSeq(input, i, j))

\* What C15 says of a date a=YYYY-MM-DD: it is accepted, as its lexeme, exactly
\* when its month is 1..12 and its day is 1..the last day of the month;
\* otherwise an error about the date is recorded.
C15_Date ==
    (pc = "done" /\ input \in DateInputs) =>
        LET year == TwoAt(3) * 100 + TwoAt(5)
            month == TwoAt(8)
            day == TwoAt(11)
        IN IF month \in 1..12 /\ day >= 1 /\ day <= LastDay(year, month)
           THEN ValueIsLexeme(3, 12)
           ELSE /\ result = 0
                /\ error_message_.text \in
                       {"Invalid date: month must be 01-12", "Invalid date: day must be 01-31",
                        "Invalid date: day out of range for month"}

\* What C15 says of the fields of a time, alone (at 3 of the input) or after a
\* date (at 14): accepted exactly when hour <= 23, minute <= 59, second <= 60.
C15_Time(i) ==
    IF TwoAt(i) <= 23 /\ TwoAt(i + 3) <= 59 /\ TwoAt(i + 6) <= 60
    THEN ValueIsLexeme(3, Len(input))
    ELSE /\ result = 0
         /\ error_message_.text \in
                {"Invalid time: hour must be 00-23", "Invalid time: minute must be 00-59",
                 "Invalid time: second must be 00-60", "Invalid datetime: hour must be 00-23",
                 "Invalid datetime: minute must be 00-59",
                 "Invalid datetime: second must be 00-60"}

\* C15: a date is accepted only when 1 <= month <= 12 and 1 <= day <=
\* max_day(year, month), February having 29 days exactly in Gregorian leap
\* years, and any other month or day records an error; time fields are accepted
\* only when hour <= 23, minute <= 59 and second <= 60.
C15_DateAndTimeFields ==
    /\ C15_Date
    /\ (pc = "done" /\ input \in TimeInputs) => C15_Time(3)
    /\ (pc = "done" /\ input \in DateTimeInputs) => C15_Time(14)

\* a=2024-02-29 was read: the 29th of February of a leap year is accepted.
C15_Witness ==
    /\ pc = "done" /\ input = DateInput(2024, 2, 29)
    /\ ValueIsLexeme(3, 12)

\* The leap years before the year y, in the Gregorian calendar from year 1.
LeapYearsBefore(y) == ((y - 1) \div 4) - ((y - 1) \div 100) + ((y - 1) \div 400)

\* The days of a year before its month m, February having 28.
DaysBeforeMonth == <<0, 31, 59, 90, 120, 151, 181, 212, 243, 273, 304, 334>>

\* The seconds from 1970-01-01T00:00:00Z to the date and time read as UTC.
EpochSeconds(y, m, d, hour, minute, second) ==
    (365 * (y - 1970) + (LeapYearsBefore(y) - LeapYearsBefore(1970)) + DaysBeforeMonth[m]
     + (IF m > 2 /\ LeapYearsBefore(y + 1) > LeapYearsBefore(y) THEN 1 ELSE 0)
     + (d - 1)) * 86400
    + hour * 3600 + minute * 60 + second

\* The minutes of the offset written at 22 of the input: 0 for Z and z.
WrittenOffset ==
    IF input[22] \in {90, 122} THEN 0
    ELSE (TwoAt(23) * 60 + TwoAt(26)) * (IF input[22] = 45 THEN -1 ELSE 1)

\* C16: an offset date-time of a year kept as an instant gives the pair of
\* offset_minutes = +-(HH*60 + MM) of the offset written (0 for Z and z, at most
\* 23:59) and of the instant that is the date and time written, read as UTC,
\* minus offset_minutes minutes; an offset past 23:59 is an error.
C16_OffsetDateTime ==
    (pc = "done" /\ input \in OffsetInputs) =>
        IF input[22] \in {90, 122} \/ (TwoAt(23) <= 23 /\ TwoAt(26) <= 59)
        THEN /\ result # 0 /\ error_message_ = NoMsg
             /\ heap[result].values[<<97>>] =
                    DateTimeOffset(EpochSeconds(TwoAt(3) * 100 + TwoAt(5), TwoAt(8), TwoAt(11),
                                                TwoAt(14), TwoAt(17), TwoAt(20))
                                       - WrittenOffset * 60,
                                   WrittenOffset, <<>>)
        ELSE /\ result = 0
             /\ error_message_ = Msg("Invalid datetime: offset must be Z or +-HH:MM", <<>>)

\* a=1979-05-27T07:32:00-08:00 was read: the instant is 1979-05-27T15:32:00Z,
\* 296667120 seconds after the epoch, and the offset is -480 minutes.
C16_Witness ==
    /\ pc = "done" /\ result # 0
    /\ input = OffsetInput(1979, <<5, 27>>, 84, <<7, 32, 0>>, <<45, 48, 56, 58, 48, 48>>)
    /\ heap[result].values[<<97>>] = DateTimeOffset(296667120, -480, <<>>)

\* The bytes that may follow a date or a time.
ValueTerminators == {32, 9, 10, 13, 44, 93, 125, 35}

\* C17 (as stated): a byte that follows a date, a date-time or a time and is
\* neither a value terminator nor the end of the input records an error.  The
\* source does not look at the byte after an offset date-time, and takes a T at
\* the end of the input, or before a terminator, as part of a date.
C17_TrailingByte ==
    \A written \in DateTimeLexemes, trailer \in Trailers :
        (/\ pc = "done" /\ input = TrailingInput(written, trailer)
         /\ trailer # <<>> /\ trailer[1] \notin ValueTerminators)
        => (result = 0 /\ error_message_ # NoMsg)

\* The first position from p whose byte is not in the set skipped, or the end:
\* what a function of simd_utils is to return.
FirstOutside(p, skipped) ==
    CHOOSE q \in p..end_ :
        /\ q = end_ \/ input[q + 1] \notin skipped
        /\ \A i \in p..(q - 1) : input[i + 1] \in skipped

\* The bytes the function called skips.
Skipped ==
    IF hist.method = "skip_whitespace" THEN {32, 9, 13, 10}
    ELSE IF hist.method = "skip_whitespace_no_nl" THEN {32, 9, 13}
    ELSE Byte \ {hist.ch}

\* C18: for every buffer, start position and target byte the AVX2
\* skip_whitespace, skip_whitespace_no_nl and find_char_simd return the pointer
\* the scalar loops return, the first position whose byte is outside the class
\* skipped (or equals the target) or the end, and they load a chunk of 32 bytes
\* only where at least 32 bytes remain.
C18_SimdEquivalence ==
    pc = "simd_done" =>
        /\ hist.avx2.ptr = hist.scalar
        /\ hist.scalar = FirstOutside(current_, Skipped)
        /\ ~hist.avx2.undefined
        /\ \A ptr \in hist.avx2.loads : end_ - ptr >= 32

\* find_char_simd loaded two chunks and found its byte in the second, before
\* the end of the buffer.
C18_Witness ==
    /\ pc = "simd_done" /\ hist.method = "find_char_simd"
    /\ Cardinality(hist.avx2.loads) = 2
    /\ hist.avx2.ptr >= current_ + 32 /\ hist.avx2.ptr < end_
    /\ input[hist.avx2.ptr + 1] = hist.ch

\* C19 (as stated): an array accepts one trailing comma before its bracket and
\* holds the same n elements in source order with it as without it, with no
\* error; whitespace, newlines and comments between the elements and the
\* delimiters do not change the result.  The source skips one comment only
\* between an element and the comma or bracket after it.
C19_TrailingComma ==
    \A n \in 1..MaxElements, before \in Gaps, after \in Gaps, trailing \in BOOLEAN :
        (pc = "done" /\ input = ArrayInput(n, before, after, trailing)) =>
            /\ result # 0 /\ error_message_ = NoMsg
            /\ heap[result].values[<<97>>].type = "ArrayPtr"
            /\ heap[heap[result].values[<<97>>].v[1]].elements
                   = [i \in 1..n |-> IntegerOf(FALSE, <<i>>)]

\* C20 (as stated): a decimal number whose digits begin with 0 followed by
\* another digit is rejected with the leading-zero error, with or without a
\* sign: 01, +01 and -01 all fail.  The source makes the test only where the
\* number has no sign.
C20_LeadingZero ==
    (pc = "done" /\ input \in LeadingZeroInputs) =>
        /\ result = 0
        /\ error_message_ = Msg("Leading zero not allowed in decimal integer", <<>>)

\* C21 (as stated): in every shape that carries seconds (local time, local
\* date-time, offset date-time), a dot after the seconds that no digit follows
\* records an error and parse() returns null.  The time-only branch of the
\* source skips the dot and the digits without counting them.
C21_FractionDigit ==
    \A shape \in SecondsShapes, after \in {<<>>, <<10>>, <<32, 35, 99>>} :
        (pc = "done" /\ input = FractionInput(shape, <<46>>, after))
        => (result = 0 /\ error_message_ # NoMsg)

\* C22 (as stated): a table is bound by an explicit header at most once: a
\* second [a] for a table that an earlier [a] defined, and an [a] for a key that
\* was assigned an inline table, make parse() fail with an error.  The source
\* keeps no record of the tables that headers or assignments defined:
\* get_or_create_table_at_path enters whatever table the key holds.
C22_HeaderOnce ==
    (pc = "done" /\ input \in HeaderTwice \cup HeaderAfterInlineTable)
    => (result = 0 /\ error_message_ # NoMsg)

\* Digits with underscores only singly and between two digits.
DigitsWithUnderscores(ds) ==
    /\ ds # <<>>
    /\ \A k \in DOMAIN ds :
           \/ ds[k] \in 48..57
           \/ /\ ds[k] = 95 /\ k > 1 /\ k < Len(ds)
              /\ ds[k - 1] \in 48..57 /\ ds[k + 1] \in 48..57

\* A fraction: nothing, or a dot and digits.
FractionPart(str) == str = <<>> \/ (str[1] = 46 /\ DigitsWithUnderscores(Tail(str)))

\* An exponent: nothing, or e or E, an optional sign, and digits.
ExponentPart(str) ==
    \/ str = <<>>
    \/ /\ str[1] \in {101, 69}
       /\ \/ DigitsWithUnderscores(Tail(str))
          \/ Len(str) > 1 /\ str[2] \in {43, 45} /\ DigitsWithUnderscores(Tail(Tail(str)))

\* A well-formed decimal token: an optional sign, digits, at most one fraction
\* and one exponent.
WellFormedDecimal(token) ==
    LET body == IF token # <<>> /\ token[1] \in {43, 45} THEN Tail(token) ELSE token
    IN \E i \in 1..Len(body), j \in 1..Len(body) :
           /\ i <= j
           /\ DigitsWithUnderscores(SubSeq(body, 1, i))
           /\ FractionPart(SubSeq(body, i + 1, j))
           /\ ExponentPart(SubSeq(body, j + 1, Len(body)))

\* The token of an input a=token or a=token\n.
TokenOf(str) ==
    SubSeq(str, 3, IF str[Len(str)] = 10 THEN Len(str) - 1 ELSE Len(str))

\* C23 (as stated): a decimal token that the scanner consumes and that is not
\* well formed (a sign after a digit outside an exponent, a doubled or trailing
\* underscore, the tail of a date) records an error, and parse() returns null.
\* The source hands the token, its underscores removed, to std::stoll or
\* std::stod, which convert the longest prefix they can and ignore the rest.
C23_WholeToken ==
    (/\ pc = "done" /\ input \in DecimalInputs \cup DateLikeInputs
     /\ ~WellFormedDecimal(TokenOf(input)))
    => (result = 0 /\ error_message_ # NoMsg)

\* C24: whenever try_parse_datetime returns no value, the cursor is where it was
\* on entry, whether or not the call recorded an error; the cursor has moved
\* only where the call returned a value.
C24_CursorRestored ==
    \A dt \in hist.datetime_calls :
        (dt.returned /\ ~dt.value) => dt.exit = dt.entry

\* a=1900-00-00 was read: try_parse_datetime was entered at the 1 of the value,
\* recorded the error of the month and returned no value, the cursor back at
\* the 1.
C24_Witness ==
    /\ pc = "done" /\ input = DateInput(1900, 0, 0)
    /\ [entry |-> 2, exit |-> 2, value |-> FALSE, error |-> TRUE, returned |-> TRUE]
           \in hist.datetime_calls

\* C25: a call of set_value_at_path, get_or_create_table_at_path or
\* get_or_create_array_append_table that records an error has changed no table
\* and no array, allocated none, and added no path to the set of
\* array-of-tables paths.
C25_ErrorLeavesTree ==
    \A op \in hist.path_calls : op.error => (op.heap_same /\ op.paths_same)

\* a=1\na.b=1\n[[a.b]]\n was read: set_value_at_path found a not to be a table,
\* then get_or_create_array_append_table did, and each recorded its error
\* and left the tree and the paths as they were.
C25_Witness ==
    /\ pc = "done"
    /\ input = Concat(<< <<97, 61, 49, 10>>, <<97, 46, 98, 61, 49, 10>>,
                         <<91, 91, 97, 46, 98, 93, 93, 10>> >>)
    /\ hist.errors = 2
    /\ \A method \in {"set_value_at_path", "get_or_create_array_append_table"} :
           [method |-> method, error |-> TRUE, heap_same |-> TRUE, paths_same |-> TRUE]
               \in hist.path_calls

\* A static array b of the table a, named by a [[a.b]] header: an error on a new
\* TomlParser.
StaticThenHeader ==
    Concat(<< <<91, 97, 93, 10>>, <<98, 61, 91, 93, 10>>, <<91, 91, 97, 46, 98, 93, 93, 10>> >>)

\* C26: the outcome of parse(B) does not depend on the calls of parse() made
\* before it on the same TomlParser: a call that has returned gave the same tree,
\* or the same error, as the first call of the object, made when it was new,
\* gave for the same string; and the tree that a call returned is not changed
\* by the calls after it.
C26_Independent ==
    /\ (pc = "done" /\ hist.calls # <<>> /\ input = hist.calls[1].input)
           => /\ Outcome.tree = hist.calls[1].tree
              /\ Outcome.error = hist.calls[1].error
    /\ \A k \in DOMAIN hist.calls :
           hist.calls[k].result # 0
               => Pointee(TablePtr(hist.calls[k].result)) = hist.calls[k].tree

\* parse() was called with [a]\nb=[]\n[[a.b]]\n on a new TomlParser and failed,
\* then with [[a.b]]\n and returned a tree, then with the first string again, and
\* failed with the error of the first call.
C26_Witness ==
    /\ pc = "done" /\ Len(hist.calls) = 2
    /\ input = StaticThenHeader /\ hist.calls[1].input = StaticThenHeader
    /\ hist.calls[2].input = <<91, 91, 97, 46, 98, 93, 93, 10>>
    /\ hist.calls[2].result # 0
    /\ result = 0 /\ error_message_ = NonArrayOfTablesMsg(<<98>>)
    /\ hist.calls[1].error = error_message_

====
